---- MODULE Spec2Model ----
(***************************************************************************)
(* A model of the dormant-accounts core: the activity store (Database on   *)
(* top of a lowdb JSON document), the fetch cycle of DormantAccountCheck   *)
(* and the default dormancy predicate.                                     *)
(***************************************************************************)
EXTENDS Integers, Sequences, FiniteSets, TLC

(***************************************************************************)
(* Bounds of the model.                                                    *)
(***************************************************************************)
MaxTime == 2
MaxBatch == 2
MaxDuration == 2
MaxCheckTime == 4
MaxCount == 32
PerPage == 1
MaxIssues == 3

(***************************************************************************)
(* JavaScript values.  A time-valued field holds undefined, null, a Date   *)
(* object, the ISO-8601 string of a Date, or an Invalid Date.              *)
(***************************************************************************)
TV(k, v) == [k |-> k, v |-> v]
Undef == TV("undef", 0)
Null == TV("null", 0)
Invalid == TV("invalid", 0)
DateV(t) == TV("date", t)
Iso(t) == TV("iso", t)

\* Date.prototype.toISOString; it throws a RangeError on an Invalid Date,
\* which no caller modelled here can pass.
toISOString(d) == Iso(d.v)

\* new Date(x) for the values a stored field can hold.
NewDate(x) ==
  CASE x.k = "iso" -> DateV(x.v)
    [] x.k = "date" -> DateV(x.v)
    [] x.k = "null" -> DateV(0)
    [] OTHER -> Invalid

\* JSON.stringify of one field: a Date becomes its ISO string, an Invalid
\* Date becomes null, undefined fields are dropped (stay undefined).
JsonField(x) ==
  CASE x.k = "date" -> Iso(x.v)
    [] x.k = "invalid" -> Null
    [] OTHER -> x

NoStr == "<undefined>"

(***************************************************************************)
(* Keys of the document.  "constructor" stands for the logins that are     *)
(* also property names of Object.prototype: data[login] finds them on      *)
(* every object whether or not the document has such a key.                *)
(***************************************************************************)
StateKey == "_state"
Logins == {"a", "b", "constructor"}
Keys == Logins \cup {StateKey}
InheritedNames == {"constructor"}

\* a.localeCompare(b) on the keys of the model, as a rank.
Rank(k) ==
  CASE k = StateKey -> 0
    [] k = "10" -> 1
    [] k = "9" -> 2
    [] k = "a" -> 3
    [] k = "b" -> 4
    [] OTHER -> 5

localeCompare(a, b) == Rank(a) - Rank(b)

\* The check identities: this instance's, a foreign one, and the empty tag.
Self == "test-check"
Other == "different-check"
CheckTypes == {Self, Other, ""}

(***************************************************************************)
(* Entries and documents.  An entry carries every field a stored object    *)
(* can have; a field the object lacks is undefined.                        *)
(***************************************************************************)
AbsentEntry ==
  [lastActivity |-> Undef, type |-> NoStr, lastRun |-> Undef,
   checkType |-> NoStr, lastUpdated |-> Undef]

StateData(ct, lr, lu) ==
  [AbsentEntry EXCEPT !.lastRun = lr, !.checkType = ct, !.lastUpdated = lu]

\* const { login, ...record } = lastActivityRecord
UserRecord(rec) ==
  [AbsentEntry EXCEPT !.lastActivity = rec.lastActivity, !.type = rec.type]

NoFile == [keys |-> {}, val |-> [k \in Keys |-> AbsentEntry]]

\* The default data handed to Low by the Database constructor.
DefaultData(ct) ==
  [keys |-> {StateKey},
   val |-> [k \in Keys |->
              IF k = StateKey THEN StateData(ct, Iso(0), Iso(0))
              ELSE AbsentEntry]]

\* JSON.stringify of one stored object.
JsonEntry(e) ==
  [e EXCEPT !.lastActivity = JsonField(@), !.lastRun = JsonField(@),
            !.lastUpdated = JsonField(@)]

\* JSONFile.write: the document as JSON text (and as parsed back by read).
Stringify(doc) ==
  [keys |-> doc.keys, val |-> [k \in Keys |-> JsonEntry(doc.val[k])]]

\* Low.read: the in-memory data is replaced only if the file has content.
LowRead(memData, fileDoc) == IF fileDoc.keys = {} THEN memData ELSE fileDoc

\* data[key] as a truthiness test: own keys and inherited property names.
Truthy(doc, key) == key \in doc.keys \/ key \in InheritedNames

\* isUserRecord: 'lastActivity' in value
isUserRecord(e) == e.lastActivity.k # "undef"

(***************************************************************************)
(* State.                                                                  *)
(***************************************************************************)
VARIABLES
  file,       \* the JSON document on disk (NoFile when absent)
  mem,        \* this.db.data of the Database instance
  now,        \* the wall clock, in ms
  ret,        \* the last completed store call: operation, argument, outcome
  \* configuration of the DormantAccountCheck instance
  activityResultType,  \* 'partial' | 'complete'
  dryRun,              \* config.dryRun === true
  customLog,           \* config.logActivityForUser is supplied
  removeUserSet,       \* config.removeUser is supplied
  \* one fetchActivity call
  pc,             \* position of the call
  fetchStartTime, \* const fetchStartTime = new Date()
  lastRunArg,     \* lastFetchTime handed to the fetch function
  entries,        \* the fetched batch
  logStatus,      \* per entry: the promise of logActivityForUser
  writeQueue,     \* steno Writer: the write in progress, then the queued one
  writeOk,        \* outcomes of the writes of this cycle, in order
  allUsers,       \* reconciliation: logins listAccounts returned
  usersToRemove,  \* reconciliation: accounts still to remove
  removeCalls,    \* logins activity.remove was invoked for, in order
  lastRunUpdates, \* number of db.updateLastRun calls of this cycle
  err,            \* the error fetchActivity rejected with
  fileAtStart,    \* the document when the call started
  \* one evaluation of the default dormancy predicate
  clsDuration,     \* durationToMillis(duration)
  clsCheckTime,    \* checkTime
  clsLastActivity, \* lastActivity of the record
  clsResult,       \* what the predicate returned or threw
  \* one classification pass (getAccountStatuses)
  isWhitelistedSet, \* config.isWhitelisted is supplied
  isDormantSet,     \* config.isDormant is supplied
  passPc,           \* position of the pass
  capturedCheckTime, \* const checkTime = new Date()
  acctStatus,       \* per login: the position of its callback
  dormancyInstants, \* the checkTime values isDormant was called with
  dormancyCalls,    \* the logins isDormant was called for
  resActive,        \* result.active, in push order
  resDormant,       \* result.dormant, in push order
  passErr,          \* the error the pass rejected with
  \* summarize
  sumActive,        \* active.length
  sumDormant,       \* dormant.length
  summary,          \* the summary returned
  \* the key order of the store's object and of the written document
  keyOrder,         \* this.db.data: its keys in creation order
  writtenKeys,      \* the keys of the written JSON text, in order
  orderOp,          \* the last store operation and whether it wrote
  \* GithubIssueNotifier and the issue tracker
  issues,           \* the repository's issues, by number
  nDryRun,          \* config.dryRun
  assignUserToIssue, \* config.assignUserToIssue
  removeAccountSet, \* config.removeAccount is supplied
  gracePeriodMillis, \* durationToMillis(config.gracePeriod)
  nPc,              \* position of processDormantUsers
  nUsers,           \* users: the dormant accounts passed in
  nIdx,             \* index of the first loop
  nReactivated,     \* reactivatedUsers
  nRIdx,            \* index of the second loop
  nResult,          \* result: ProcessingResult
  hookCalls,        \* logins config.removeAccount was invoked for
  \* one call of the exported getExistingNotification
  lookup            \* its arguments, the path it took and its outcome

storeVars == <<file, mem, now, ret>>
configVars == <<activityResultType, dryRun, customLog, removeUserSet>>
classVars == <<clsDuration, clsCheckTime, clsLastActivity, clsResult>>
fetchVars == <<pc, fetchStartTime, lastRunArg, entries, logStatus, writeQueue,
               writeOk, allUsers, usersToRemove, removeCalls, lastRunUpdates, err,
               fileAtStart>>
passVars == <<isWhitelistedSet, isDormantSet, passPc, capturedCheckTime,
              acctStatus,
              dormancyInstants, dormancyCalls, resActive, resDormant, passErr>>
sumVars == <<sumActive, sumDormant, summary>>
queryVars == <<passVars, sumVars>>
keyVars == <<keyOrder, writtenKeys, orderOp>>
notifyVars == <<issues, nDryRun, assignUserToIssue, removeAccountSet,
                gracePeriodMillis, nPc, nUsers, nIdx, nReactivated, nRIdx,
                nResult, hookCalls, lookup>>
engineVars == <<classVars, queryVars, keyVars, notifyVars>>
vars == <<file, mem, now, ret, activityResultType, dryRun, customLog,
          removeUserSet, pc, fetchStartTime, lastRunArg, entries, logStatus,
          writeQueue, writeOk, allUsers, usersToRemove, removeCalls,
          lastRunUpdates, err, fileAtStart, clsDuration, clsCheckTime,
          clsLastActivity, clsResult, isWhitelistedSet, isDormantSet, passPc,
          capturedCheckTime, acctStatus, dormancyInstants, dormancyCalls, resActive,
          resDormant, passErr, sumActive, sumDormant, summary, keyOrder,
          writtenKeys, orderOp, issues, nDryRun, assignUserToIssue,
          removeAccountSet, gracePeriodMillis, nPc, nUsers, nIdx,
          nReactivated, nRIdx, nResult, hookCalls, lookup>>

(***************************************************************************)
(* Database.                                                               *)
(***************************************************************************)
\* validateCheckType: read, then compare the stamped check type.
Mismatch(doc) ==
  LET dbCheckType == doc.val[StateKey].checkType
  IN  dbCheckType # NoStr /\ dbCheckType # "" /\ dbCheckType # Self

validateCheckType(memData, fileDoc) ==
  LET d == LowRead(memData, fileDoc)
  IN  [data |-> d, ok |-> ~Mismatch(d)]

\* writeWithSort: _state first, the other keys sorted, lastUpdated stamped.
\* The key order of the result is a function of the key set (SortedKeys).
writeWithSort(memData, t) ==
  [memData EXCEPT !.val[StateKey].lastUpdated = toISOString(DateV(t))]

Ret(op, arg, outcome, wrote, value) ==
  [op |-> op, arg |-> arg, outcome |-> outcome, wrote |-> wrote,
   value |-> value]

\* getLastRun
getLastRun ==
  LET v == validateCheckType(mem, file)
  IN  /\ mem' = v.data
      /\ file' = file
      /\ ret' = IF v.ok
                THEN Ret("getLastRun", "", "ok", FALSE,
                         NewDate(v.data.val[StateKey].lastRun))
                ELSE Ret("getLastRun", "", "mismatch", FALSE, Undef)
      /\ UNCHANGED <<now, configVars, engineVars, fetchVars>>

\* updateLastRun(timestamp = new Date())
updateLastRunData(memData, fileDoc, ts, t) ==
  LET v == validateCheckType(memData, fileDoc)
      d1 == [v.data EXCEPT !.val[StateKey].lastRun = toISOString(ts)]
      d2 == writeWithSort(d1, t)
  IN  IF v.ok
      THEN [ok |-> TRUE, data |-> d2, file |-> Stringify(d2)]
      ELSE [ok |-> FALSE, data |-> v.data, file |-> fileDoc]

updateLastRun ==
  LET r == updateLastRunData(mem, file, DateV(now), now)
  IN  /\ mem' = r.data
      /\ file' = r.file
      /\ ret' = Ret("updateLastRun", "", IF r.ok THEN "ok" ELSE "mismatch",
                    r.ok, Undef)
      /\ UNCHANGED <<now, configVars, engineVars, fetchVars>>

\* updateUserActivity: no identity check and no read before the write.
updateUserActivityData(memData, rec, t) ==
  LET d1 == [keys |-> memData.keys \cup {rec.login},
             val |-> [memData.val EXCEPT ![rec.login] = UserRecord(rec)]]
  IN  writeWithSort(d1, t)

ActivityValues == {Null, DateV(1)}
Records == [login : Keys, lastActivity : ActivityValues, type : {"test"}]

updateUserActivity(rec) ==
  LET d == updateUserActivityData(mem, rec, now)
  IN  /\ mem' = d
      /\ file' = Stringify(d)
      /\ ret' = Ret("updateUserActivity", rec.login, "ok", TRUE, Undef)
      /\ UNCHANGED <<now, configVars, engineVars, fetchVars>>

\* removeUserActivityRecord(user)
removeUserActivityRecordData(memData, fileDoc, login, t) ==
  LET v == validateCheckType(memData, fileDoc)
      d1 == [keys |-> v.data.keys \ {login},
             val |-> [v.data.val EXCEPT ![login] = AbsentEntry]]
      d2 == writeWithSort(d1, t)
  IN  IF ~v.ok
      THEN [outcome |-> "mismatch", data |-> v.data, file |-> fileDoc,
            wrote |-> FALSE]
      ELSE IF ~Truthy(v.data, login) \/ login = StateKey
      THEN [outcome |-> "false", data |-> v.data, file |-> fileDoc,
            wrote |-> FALSE]
      ELSE [outcome |-> "true", data |-> d2, file |-> Stringify(d2),
            wrote |-> TRUE]

removeUserActivityRecord(login) ==
  LET r == removeUserActivityRecordData(mem, file, login, now)
  IN  /\ mem' = r.data
      /\ file' = r.file
      /\ ret' = Ret("removeUserActivityRecord", login, r.outcome, r.wrote,
                    Undef)
      /\ UNCHANGED <<now, configVars, engineVars, fetchVars>>

\* getActivityRecords: the logins listed, or the error thrown.
getActivityRecordsData(memData, fileDoc) ==
  LET v == validateCheckType(memData, fileDoc)
      ks == v.data.keys \ {StateKey}
  IN  IF ~v.ok THEN [outcome |-> "mismatch", data |-> v.data, logins |-> {}]
      ELSE IF \E k \in ks : ~isUserRecord(v.data.val[k])
      THEN [outcome |-> "malformed", data |-> v.data, logins |-> {}]
      ELSE [outcome |-> "ok", data |-> v.data, logins |-> ks]

getActivityRecords ==
  LET r == getActivityRecordsData(mem, file)
  IN  /\ mem' = r.data
      /\ file' = file
      /\ ret' = Ret("getActivityRecords", "", r.outcome, FALSE, Undef)
      /\ UNCHANGED <<now, configVars, engineVars, fetchVars>>

\* getRawData
getRawData ==
  LET v == validateCheckType(mem, file)
  IN  /\ mem' = v.data
      /\ file' = file
      /\ ret' = Ret("getRawData", "", IF v.ok THEN "ok" ELSE "mismatch",
                    FALSE, Undef)
      /\ UNCHANGED <<now, configVars, engineVars, fetchVars>>

\* new Database(checkType, dbPath): a fresh instance over the same file.
NewDatabase ==
  /\ mem' = DefaultData(Self)
  /\ ret' = Ret("new", "", "ok", FALSE, Undef)
  /\ UNCHANGED <<file, now, configVars, engineVars, fetchVars>>

\* The clock advances: between calls and while the external fetch is awaited
\* (local file I/O takes no time at the clock's resolution).
Tick ==
  /\ pc \in {"idle", "fetching"}
  /\ now < MaxTime
  /\ now' = now + 1
  /\ UNCHANGED <<file, mem, ret, configVars, engineVars, fetchVars>>

(***************************************************************************)
(* DormantAccountCheck.fetchActivity, one action per await.                *)
(***************************************************************************)
BatchLogins == {"a", "b"}
BatchRecords == {r \in Records : r.login \in BatchLogins}
Batches == UNION {[1..n -> BatchRecords] : n \in 0..MaxBatch}
NoOverride == Undef
Overrides == {NoOverride, DateV(0)}

IdleCycle ==
  /\ pc = "idle"
  /\ fetchStartTime = 0
  /\ lastRunArg = Undef
  /\ entries = <<>>
  /\ logStatus = <<>>
  /\ writeQueue = <<>>
  /\ writeOk = <<>>
  /\ allUsers = {}
  /\ usersToRemove = <<>>
  /\ removeCalls = <<>>
  /\ lastRunUpdates = 0
  /\ err = "none"
  /\ fileAtStart = NoFile

\* The keys of a set in ascending localeCompare order: the order in which
\* Object.entries lists a document that writeWithSort wrote.
RECURSIVE SortedKeys(_)
SortedKeys(ks) ==
  IF ks = {} THEN <<>>
  ELSE LET m == CHOOSE k \in ks : \A o \in ks : localeCompare(k, o) <= 0
       IN  <<m>> \o SortedKeys(ks \ {m})

\* const fetchStartTime = new Date();
\* const lastRun = lastFetchTime || (await this.db.getLastRun());
FetchStart(lastFetchTime) ==
  /\ pc = "idle"
  /\ fetchStartTime' = now
  /\ fileAtStart' = file
  /\ lastRunArg' = lastFetchTime
  /\ pc' = "started"
  /\ UNCHANGED <<storeVars, configVars, engineVars, entries, logStatus, writeQueue,
                 writeOk, allUsers, usersToRemove, removeCalls, lastRunUpdates, err>>

FetchGetLastRun ==
  /\ pc = "started"
  /\ IF lastRunArg # NoOverride
     THEN /\ pc' = "fetching"
          /\ UNCHANGED <<mem, lastRunArg, err>>
     ELSE LET v == validateCheckType(mem, file)
          IN  /\ mem' = v.data
              /\ IF v.ok
                 THEN /\ lastRunArg' = NewDate(v.data.val[StateKey].lastRun)
                      /\ pc' = "fetching"
                      /\ err' = err
                 ELSE /\ pc' = "failed"
                      /\ err' = "mismatch"
                      /\ lastRunArg' = lastRunArg
  /\ UNCHANGED <<file, now, ret, configVars, engineVars, fetchStartTime, entries,
                 logStatus, writeQueue, writeOk, allUsers, usersToRemove, removeCalls,
                 lastRunUpdates, fileAtStart>>

\* The in-memory data after the first n default logging calls ran their
\* synchronous part (data[login] = record; sort; stamp), in batch order.
RECURSIVE LoggedData(_, _, _, _)
LoggedData(memData, batch, n, t) ==
  IF n = 0 THEN memData
  ELSE updateUserActivityData(LoggedData(memData, batch, n - 1, t),
                              batch[n], t)

\* Variant: a write issued while another is in progress is dropped.
IssuedWritesFirstOnly(memData, batch, t) ==
  IF Len(batch) = 0 THEN <<>>
  ELSE <<Stringify(LoggedData(memData, batch, 1, t))>>

\* steno Writer.write for the n calls issued back to back: the first data is
\* written at once, every later one replaces the single queued data.
IssuedWrites(memData, batch, t) ==
  LET n == Len(batch)
  IN  IF n = 0 THEN <<>>
      ELSE IF n = 1 THEN <<Stringify(LoggedData(memData, batch, 1, t))>>
      ELSE <<Stringify(LoggedData(memData, batch, 1, t)),
             Stringify(LoggedData(memData, batch, n, t))>>

\* await this.config.fetchLatestActivity(...) resolves with a batch, and
\* entries.map(logActivityForUser) issues every logging call.
FetchResolve(batch) ==
  /\ pc = "fetching"
  /\ entries' = batch
  /\ logStatus' = [i \in 1..Len(batch) |-> "pending"]
  /\ IF customLog
     THEN UNCHANGED <<mem, writeQueue>>
     ELSE /\ mem' = LoggedData(mem, batch, Len(batch), now)
          /\ writeQueue' = IssuedWrites(mem, batch, now)
  /\ pc' = "logging"
  /\ UNCHANGED <<file, now, ret, configVars, engineVars, fetchStartTime, lastRunArg,
                 writeOk, allUsers, usersToRemove, removeCalls, lastRunUpdates, err,
                 fileAtStart>>

\* Variant: the last run is committed although the fetch function rejected.
FetchRejectCommittingLastRun ==
  /\ pc = "fetching"
  /\ pc' = "failed"
  /\ err' = "fetch"
  /\ LET r == updateLastRunData(mem, file, DateV(fetchStartTime), now)
     IN  mem' = r.data /\ file' = r.file
  /\ UNCHANGED <<now, ret, configVars, engineVars, fetchStartTime, lastRunArg,
                 entries, logStatus, writeQueue, writeOk, allUsers,
                 usersToRemove, removeCalls, lastRunUpdates, fileAtStart>>

\* await this.config.fetchLatestActivity(...) rejects.
FetchReject ==
  /\ pc = "fetching"
  /\ pc' = "failed"
  /\ err' = "fetch"
  /\ UNCHANGED <<storeVars, configVars, engineVars, fetchStartTime, lastRunArg, entries,
                 logStatus, writeQueue, writeOk, allUsers, usersToRemove, removeCalls,
                 lastRunUpdates, fileAtStart>>

\* Variant: write errors are swallowed and every logging call resolves.
SettledStatusIgnoringErrors(n, oks) == [i \in 1..n |-> "done"]

\* The promises of the default logging calls once the writer has drained:
\* the first call awaits its own write and the queued one, the later calls
\* share the queued write.
SettledStatus(n, oks) ==
  [i \in 1..n |->
     IF i = 1
     THEN (IF \A j \in 1..Len(oks) : oks[j] THEN "done" ELSE "failed")
     ELSE (IF oks[Len(oks)] THEN "done" ELSE "failed")]

\* One write of the steno Writer completes (temp file renamed over the
\* document) or fails with an I/O error.
WriterStep(ok) ==
  /\ pc = "logging"
  /\ writeQueue # <<>>
  /\ file' = IF ok THEN Head(writeQueue) ELSE file
  /\ writeQueue' = Tail(writeQueue)
  /\ writeOk' = Append(writeOk, ok)
  /\ logStatus' = IF Tail(writeQueue) = <<>>
                  THEN SettledStatus(Len(entries), Append(writeOk, ok))
                  ELSE logStatus
  /\ UNCHANGED <<mem, now, ret, configVars, engineVars, pc, fetchStartTime, lastRunArg,
                 entries, allUsers, usersToRemove, removeCalls, lastRunUpdates, err,
                 fileAtStart>>

\* A caller-supplied logActivityForUser call settles.
LogSettle(i, ok) ==
  /\ pc = "logging"
  /\ customLog
  /\ i \in 1..Len(logStatus)
  /\ logStatus[i] = "pending"
  /\ logStatus' = [logStatus EXCEPT ![i] = IF ok THEN "done" ELSE "failed"]
  /\ UNCHANGED <<storeVars, configVars, engineVars, pc, fetchStartTime, lastRunArg,
                 entries, writeQueue, writeOk, allUsers, usersToRemove, removeCalls,
                 lastRunUpdates, err, fileAtStart>>

\* Variant: resolved as soon as one call has resolved (Promise.any).
PromiseAnyResolved(status) ==
  status = <<>> \/ \E i \in 1..Len(status) : status[i] = "done"

\* Promise.all over the logging calls: resolved once every call has
\* resolved, rejected as soon as one has rejected.
PromiseAllResolved(status) == \A i \in 1..Len(status) : status[i] = "done"
PromiseAllRejected(status) == \E i \in 1..Len(status) : status[i] = "failed"

\* await Promise.all(...) rejects as soon as one logging call has rejected.
LoggingReject ==
  /\ pc = "logging"
  /\ PromiseAllRejected(logStatus)
  /\ pc' = "failed"
  /\ err' = "log"
  /\ UNCHANGED <<storeVars, configVars, engineVars, fetchStartTime, lastRunArg, entries,
                 logStatus, writeQueue, writeOk, allUsers, usersToRemove, removeCalls,
                 lastRunUpdates, fileAtStart>>

\* Variant: the filter on the fetched logins is missing.
usersToRemoveUnfiltered(all, batch) == SortedKeys(all)

\* allUsers.filter((user) => !fetchedUserLogins.includes(user.login))
usersToRemoveOf(all, batch) ==
  LET fetchedUserLogins == {batch[i].login : i \in 1..Len(batch)}
  IN  SortedKeys(all \ fetchedUserLogins)

\* Variant: the snapshot is never taken as complete.
NeverCompleteSnapshot == FALSE

\* if (this.activityResultType === 'complete')
IsCompleteSnapshot == activityResultType = "complete"

\* Variant: the dry-run flag is not honoured.
RemovalAlwaysEnabled == TRUE

\* Variant: removal only when a removeUser hook is configured.
RemovalOnlyWithHook == ~dryRun /\ removeUserSet

\* if (!this.dryRun) await this.activity.remove(user)
RemovalEnabled == ~dryRun

\* await Promise.all(...) resolves; in complete mode listAccounts is read
\* and usersToRemove is computed.
LoggingDone ==
  /\ pc = "logging"
  /\ PromiseAllResolved(logStatus)
  /\ IF IsCompleteSnapshot
     THEN LET r == getActivityRecordsData(mem, file)
          IN  /\ mem' = r.data
              /\ IF r.outcome = "ok"
                 THEN /\ allUsers' = r.logins
                      /\ usersToRemove' = usersToRemoveOf(r.logins, entries)
                      /\ pc' = "reconcile"
                      /\ err' = err
                 ELSE /\ UNCHANGED <<allUsers, usersToRemove>>
                      /\ pc' = "failed"
                      /\ err' = r.outcome
     ELSE /\ pc' = "updateLastRun"
          /\ UNCHANGED <<mem, allUsers, usersToRemove, err>>
  /\ UNCHANGED <<file, now, ret, configVars, engineVars, fetchStartTime,
                 lastRunArg, entries, logStatus, writeQueue, writeOk,
                 removeCalls, lastRunUpdates, fileAtStart>>

\* One iteration of: for (const user of usersToRemove) { if (!this.dryRun)
\* await this.activity.remove(user) }.  activity.remove deletes the record
\* from the store; config.removeUser is not consulted.
ReconcileRemove ==
  /\ pc = "reconcile"
  /\ usersToRemove # <<>>
  /\ LET login == Head(usersToRemove)
         r == removeUserActivityRecordData(mem, file, login, now)
     IN  IF ~RemovalEnabled
         THEN /\ usersToRemove' = Tail(usersToRemove)
              /\ UNCHANGED <<file, mem, removeCalls, pc, err>>
         ELSE /\ removeCalls' = Append(removeCalls, login)
              /\ mem' = r.data
              /\ file' = r.file
              /\ IF r.outcome = "mismatch"
                 THEN /\ pc' = "failed"
                      /\ err' = "mismatch"
                      /\ usersToRemove' = usersToRemove
                 ELSE /\ usersToRemove' = Tail(usersToRemove)
                      /\ UNCHANGED <<pc, err>>
  /\ UNCHANGED <<now, ret, configVars, engineVars, fetchStartTime, lastRunArg,
                 entries, logStatus, writeQueue, writeOk, allUsers,
                 lastRunUpdates, fileAtStart>>

ReconcileDone ==
  /\ pc = "reconcile"
  /\ usersToRemove = <<>>
  /\ pc' = "updateLastRun"
  /\ UNCHANGED <<storeVars, configVars, engineVars, fetchStartTime, lastRunArg, entries,
                 logStatus, writeQueue, writeOk, allUsers, usersToRemove, removeCalls,
                 lastRunUpdates, err, fileAtStart>>

\* Variant: updateLastRun() with its default argument, the completion time.
LastRunTimestampAtCompletion == DateV(now)

\* The argument of this.db.updateLastRun(fetchStartTime).
LastRunTimestamp == DateV(fetchStartTime)

\* await this.db.updateLastRun(fetchStartTime)
FetchUpdateLastRun ==
  /\ pc = "updateLastRun"
  /\ LET r == updateLastRunData(mem, file, LastRunTimestamp, now)
     IN  /\ mem' = r.data
         /\ file' = r.file
         /\ lastRunUpdates' = lastRunUpdates + 1
         /\ IF r.ok
            THEN /\ pc' = "done"
                 /\ err' = err
            ELSE /\ pc' = "failed"
                 /\ err' = "mismatch"
  /\ UNCHANGED <<now, ret, configVars, engineVars, fetchStartTime, lastRunArg, entries,
                 logStatus, writeQueue, writeOk, allUsers, usersToRemove, removeCalls,
                 fileAtStart>>

\* DormantAccountCheck.listAccounts called before the fetch: the instance
\* has read the document.
listAccounts ==
  /\ pc = "idle"
  /\ mem' = getActivityRecordsData(mem, file).data
  /\ mem' # mem
  /\ UNCHANGED <<file, now, ret, configVars, engineVars, fetchVars>>

(***************************************************************************)
(* The default dormancy predicate.                                         *)
(***************************************************************************)
Num(n) == TV("num", n)

\* durationToMillis(duration): ms() gives a number of milliseconds, or
\* undefined for a string it cannot parse.
DurationMillisValues == {Undef} \cup {Num(d) : d \in -1..MaxDuration}

\* msBetweenDates(start, end) for Date arguments.
msBetweenDates(start, end) == end.v - start.v

\* compareDatesAgainstDuration(duration, start, end): overDuration, or the
\* 'Invalid duration string' error when durationMillis is falsy.
compareDatesAgainstDuration(durationMillis, start, end) ==
  IF durationMillis.k = "undef" \/ durationMillis.v = 0
  THEN "throw"
  ELSE IF msBetweenDates(start, end) > durationMillis.v
  THEN "over"
  ELSE "within"

\* Variant: the duration is compared before the missing activity is tested.
defaultDormancyDurationFirst(checkTime, lastActivity, durationMillis) ==
  LET c == compareDatesAgainstDuration(durationMillis,
                                       NewDate(lastActivity), checkTime)
  IN  CASE c = "throw" -> "throw"
        [] lastActivity.k = "null" -> "dormant"
        [] c = "over" -> "dormant"
        [] OTHER -> "active"

\* defaultDormancyHandler({ checkTime, lastActivity, duration }).  The
\* duration string itself is never empty (the constructor defaults it).
defaultDormancyHandler(checkTime, lastActivity, durationMillis) ==
  IF lastActivity.k = "null"
  THEN "dormant"
  ELSE LET c == compareDatesAgainstDuration(durationMillis, lastActivity,
                                            checkTime)
       IN  CASE c = "throw" -> "throw"
             [] c = "over" -> "dormant"
             [] OTHER -> "active"

IdleClass ==
  /\ clsDuration = Num(1)
  /\ clsCheckTime = DateV(0)
  /\ clsLastActivity = Null
  /\ clsResult = "none"

\* await this.isDormant({ ...context, checkTime }) with the default handler.
EvalDefaultDormancy ==
  /\ clsResult = "none"
  /\ clsResult' = defaultDormancyHandler(clsCheckTime, clsLastActivity,
                                         clsDuration)
  /\ UNCHANGED <<storeVars, configVars, fetchVars, queryVars, keyVars,
                 notifyVars, clsDuration,
                 clsCheckTime, clsLastActivity>>

(***************************************************************************)
(* DormantAccountCheck.getAccountStatuses: one classification pass.  Each  *)
(* account's callback is a chain of two awaits (whitelist, dormancy); the   *)
(* callbacks of different accounts interleave in any order when the        *)
(* predicates are caller-supplied.  Without caller-supplied predicates the  *)
(* continuations run in iteration order, which is one of the orders here.  *)
(***************************************************************************)
NoError == [login |-> "", by |-> "none"]

IdlePass ==
  /\ isWhitelistedSet = FALSE
  /\ isDormantSet = FALSE
  /\ passPc = "idle"
  /\ capturedCheckTime = 0
  /\ acctStatus = [l \in Logins |-> "none"]
  /\ dormancyInstants = {}
  /\ dormancyCalls = {}
  /\ resActive = <<>>
  /\ resDormant = <<>>
  /\ passErr = NoError

\* lastActivity: lastActivity ? new Date(lastActivity) : null
recordActivity(stored) ==
  IF stored.k \in {"null", "undef"} THEN Null ELSE NewDate(stored)

\* const accounts = await this.listAccounts(); const checkTime = new Date();
\* accounts.map(async (record) => { await this.checkWhitelist(record) ...
PassStart ==
  /\ passPc = "idle"
  /\ LET r == getActivityRecordsData(mem, file)
     IN  /\ mem' = r.data
         /\ IF r.outcome = "ok"
            THEN /\ capturedCheckTime' = now
                 /\ acctStatus' = [l \in Logins |->
                                     IF l \in r.logins THEN "whitelist"
                                     ELSE "none"]
                 /\ passPc' = "running"
                 /\ passErr' = passErr
            ELSE /\ passPc' = "rejected"
                 /\ passErr' = [login |-> "", by |-> r.outcome]
                 /\ UNCHANGED <<capturedCheckTime, acctStatus>>
  /\ UNCHANGED <<file, now, ret, configVars, fetchVars, classVars, keyVars, notifyVars, sumVars,
                 isWhitelistedSet, isDormantSet, dormancyInstants,
                 dormancyCalls, resActive, resDormant>>

\* What checkWhitelist can resolve to: config.isWhitelisted's answer, or
\* Promise.resolve(false) when none is configured.
WhitelistOutcomes ==
  IF isWhitelistedSet THEN {"true", "false", "reject"} ELSE {"false"}

\* Variant: the instant is taken when the predicate is called.
PassCheckTimeAtCall == now

\* The checkTime handed to isDormant: the one captured before the map.
PassCheckTime == capturedCheckTime

\* What isDormant can resolve to for a login: the caller's predicate's
\* answer, or the default handler's.
DormancyOutcomes(login) ==
  IF isDormantSet THEN {"dormant", "active", "throw"}
  ELSE {defaultDormancyHandler(DateV(PassCheckTime),
                               recordActivity(mem.val[login].lastActivity),
                               clsDuration)}

\* Variant: the rejection of a callback is swallowed.
PassRejectSwallowed(login, by) ==
  /\ acctStatus' = [acctStatus EXCEPT ![login] = "rejected"]
  /\ UNCHANGED <<passPc, passErr>>

\* A callback rejects: Promise.all rejects with the first such error.
PassRejectWith(login, by) ==
  /\ acctStatus' = [acctStatus EXCEPT ![login] = "rejected"]
  /\ IF passPc = "running"
     THEN passPc' = "rejected" /\ passErr' = [login |-> login, by |-> by]
     ELSE UNCHANGED <<passPc, passErr>>

\* Variant: the return after the push is missing, so a whitelisted account
\* goes on to the dormancy predicate.
WhitelistedStatusStillChecked == "dormancy"

\* if (isWhitelisted) { result.active.push(record); return; }: the callback
\* is over once the record is pushed.
WhitelistedStatus == "active"

\* await this.checkWhitelist(record) settles for one account; when it is
\* not whitelisted this.isDormant({...context, checkTime}) is called.
WhitelistSettle(login, outcome) ==
  /\ passPc \in {"running", "rejected"}
  /\ acctStatus[login] = "whitelist"
  /\ outcome \in WhitelistOutcomes
  /\ IF outcome = "reject"
     THEN /\ PassRejectWith(login, "whitelist")
          /\ UNCHANGED <<resActive, dormancyInstants, dormancyCalls>>
     ELSE LET next == IF outcome = "true" THEN WhitelistedStatus
                      ELSE "dormancy"
          IN  /\ acctStatus' = [acctStatus EXCEPT ![login] = next]
              /\ resActive' = IF outcome = "true"
                              THEN Append(resActive, login) ELSE resActive
              /\ IF next = "dormancy"
                 THEN /\ dormancyInstants' =
                           dormancyInstants \cup {PassCheckTime}
                      /\ dormancyCalls' = dormancyCalls \cup {login}
                 ELSE UNCHANGED <<dormancyInstants, dormancyCalls>>
              /\ UNCHANGED <<passPc, passErr>>
  /\ UNCHANGED <<storeVars, configVars, fetchVars, classVars, keyVars, notifyVars, sumVars,
                 isWhitelistedSet, isDormantSet, capturedCheckTime,
                 resDormant>>

\* await this.isDormant(...) settles for one account.
DormancySettle(login, outcome) ==
  /\ passPc \in {"running", "rejected"}
  /\ acctStatus[login] = "dormancy"
  /\ outcome \in DormancyOutcomes(login)
  /\ CASE outcome = "throw" ->
            /\ PassRejectWith(login, "dormancy")
            /\ UNCHANGED <<resActive, resDormant>>
       [] outcome = "dormant" ->
            /\ acctStatus' = [acctStatus EXCEPT ![login] = "dormant"]
            /\ resDormant' = Append(resDormant, login)
            /\ UNCHANGED <<passPc, passErr, resActive>>
       [] OTHER ->
            /\ acctStatus' = [acctStatus EXCEPT ![login] = "active"]
            /\ resActive' = Append(resActive, login)
            /\ UNCHANGED <<passPc, passErr, resDormant>>
  /\ UNCHANGED <<storeVars, configVars, fetchVars, classVars, keyVars, notifyVars, sumVars,
                 isWhitelistedSet, isDormantSet, capturedCheckTime, dormancyInstants,
                 dormancyCalls>>

\* Array.prototype.sort((a, b) => a.login.localeCompare(b.login)).
InsertByLogin(login, sorted) ==
  LET k == Cardinality({i \in 1..Len(sorted) :
                          localeCompare(sorted[i], login) <= 0})
  IN  SubSeq(sorted, 1, k) \o <<login>> \o SubSeq(sorted, k + 1, Len(sorted))

RECURSIVE InsertionSort(_)
InsertionSort(list) ==
  IF list = <<>> THEN <<>>
  ELSE InsertByLogin(list[Len(list)],
                     InsertionSort(SubSeq(list, 1, Len(list) - 1)))

\* Variant: the lists are returned in push order.
sortByLoginMissing(list) == list

sortByLogin(list) == InsertionSort(list)

\* Variant: the callbacks are not awaited (forEach instead of Promise.all).
PassNoneAwaited == TRUE

\* await Promise.all(...) resolves: every callback has pushed its record.
PassAllResolved ==
  \A l \in Logins : acctStatus[l] \in {"none", "active", "dormant"}

\* Promise.all resolves; both lists are sorted and the result is returned.
\* After a rejection the operation has already rejected.
PassResolve ==
  /\ passPc = "running"
  /\ PassAllResolved
  /\ passPc' = "returned"
  /\ resActive' = sortByLogin(resActive)
  /\ resDormant' = sortByLogin(resDormant)
  /\ UNCHANGED <<storeVars, configVars, fetchVars, classVars, keyVars, notifyVars, sumVars,
                 isWhitelistedSet, isDormantSet, capturedCheckTime, acctStatus,
                 dormancyInstants, dormancyCalls, passErr>>

(***************************************************************************)
(* DormantAccountCheck.summarize.  A percentage is a number of hundredths  *)
(* of a percent: parseFloat(x.toFixed(2)) has two decimals.                *)
(***************************************************************************)
NaN == TV("nan", 0)

NoSummary ==
  [done |-> FALSE, lastActivityFetch |-> Undef, totalAccounts |-> 0,
   activeAccounts |-> 0, dormantAccounts |-> 0,
   activeAccountPercentage |-> Undef, dormantAccountPercentage |-> Undef]

IdleSummary ==
  /\ sumActive = 0
  /\ sumDormant = 0
  /\ summary = NoSummary

\* Variant: the digits after the second decimal are cut off.
toFixed2Truncating(count, total) == (count * 10000) \div total

\* ((count / total) * 100).toFixed(2): the nearest number of hundredths, the
\* larger one on a tie.
toFixed2(count, total) == (2 * count * 10000 + total) \div (2 * total)

\* Variant: the division is not guarded.
percentageUnguarded(count, total) ==
  IF total = 0 THEN NaN ELSE Num(toFixed2(count, total))

\* totalAccounts > 0 ? parseFloat(((count / totalAccounts) * 100).toFixed(2)) : 0
percentageOf(count, total) ==
  IF total > 0 THEN Num(toFixed2(count, total)) ELSE Num(0)

summarizeOf(nActive, nDormant, lastRun) ==
  LET totalAccounts == nActive + nDormant
  IN  [done |-> TRUE,
       lastActivityFetch |-> toISOString(lastRun),
       totalAccounts |-> totalAccounts,
       activeAccounts |-> nActive,
       dormantAccounts |-> nDormant,
       activeAccountPercentage |-> percentageOf(nActive, totalAccounts),
       dormantAccountPercentage |-> percentageOf(nDormant, totalAccounts)]

\* summarize(), after getAccountStatuses has returned: getLastRun, then the
\* counts and percentages.
PassSummarize ==
  /\ passPc = "returned"
  /\ ~summary.done
  /\ LET v == validateCheckType(mem, file)
     IN  /\ mem' = v.data
         /\ IF v.ok
            THEN /\ sumActive' = Len(resActive)
                 /\ sumDormant' = Len(resDormant)
                 /\ summary' = summarizeOf(Len(resActive), Len(resDormant),
                                           NewDate(v.data.val[StateKey].lastRun))
                 /\ UNCHANGED <<passPc, passErr>>
            ELSE /\ passPc' = "rejected"
                 /\ passErr' = [login |-> "", by |-> "mismatch"]
                 /\ UNCHANGED sumVars
  /\ UNCHANGED <<file, now, ret, configVars, fetchVars, classVars, keyVars, notifyVars,
                 isWhitelistedSet, isDormantSet, capturedCheckTime, acctStatus,
                 dormancyInstants, dormancyCalls, resActive, resDormant>>

\* The arithmetic of summarize() on given list lengths.
SummarizeCounts ==
  /\ ~summary.done
  /\ summary' = summarizeOf(sumActive, sumDormant, DateV(0))
  /\ UNCHANGED <<storeVars, configVars, fetchVars, classVars, keyVars, notifyVars, passVars,
                 sumActive, sumDormant>>

(***************************************************************************)
(* The key order of the document.  An object lists its integer-like keys   *)
(* first, in ascending numeric order, and then its other keys in the order *)
(* of their creation; JSON.stringify and Object.entries follow that order. *)
(***************************************************************************)
OrderLogins == {"a", "b", "9", "10"}
IntegerKeys == {"9", "10"}

\* The array index a canonical numeric string denotes.
ArrayIndex(k) == IF k = "9" THEN 9 ELSE 10

SeqRange(list) == {list[i] : i \in 1..Len(list)}

RECURSIVE AscendingIndexKeys(_)
AscendingIndexKeys(ks) ==
  IF ks = {} THEN <<>>
  ELSE LET m == CHOOSE k \in ks : \A o \in ks : ArrayIndex(k) <= ArrayIndex(o)
       IN  <<m>> \o AscendingIndexKeys(ks \ {m})

\* [[OwnPropertyKeys]] of an object whose keys were created in this order.
OwnPropertyKeys(created) ==
  AscendingIndexKeys(SeqRange(created) \cap IntegerKeys)
    \o SelectSeq(created, LAMBDA k : k \notin IntegerKeys)

\* writeWithSort: sortedData = { _state }, then the other entries in
\* localeCompare order; the result is the creation order of sortedData.
sortedData(created) ==
  <<StateKey>>
    \o InsertionSort(SelectSeq(OwnPropertyKeys(created),
                               LAMBDA k : k # StateKey))

\* this.db.read(): the object parsed from the document, if there is one.
ReadKeys == IF writtenKeys = <<>> THEN keyOrder ELSE writtenKeys

IdleKeys ==
  /\ keyOrder = <<StateKey>>
  /\ writtenKeys = <<>>
  /\ orderOp = [op |-> "new", arg |-> "", wrote |-> FALSE]

\* The keys of updateUserActivity: data[login] = record; writeWithSort().
OrderUpdateUserActivity(login) ==
  /\ LET created == IF login \in SeqRange(keyOrder) THEN keyOrder
                    ELSE Append(keyOrder, login)
     IN  /\ keyOrder' = sortedData(created)
         /\ writtenKeys' = OwnPropertyKeys(sortedData(created))
  /\ orderOp' = [op |-> "updateUserActivity", arg |-> login, wrote |-> TRUE]
  /\ UNCHANGED <<storeVars, configVars, fetchVars, classVars, queryVars,
                 notifyVars>>

\* The keys of removeUserActivityRecord: read; delete data[login];
\* writeWithSort().
OrderRemoveUserActivityRecord(login) ==
  /\ IF login \notin SeqRange(ReadKeys) \/ login = StateKey
     THEN /\ keyOrder' = ReadKeys
          /\ writtenKeys' = writtenKeys
          /\ orderOp' = [op |-> "removeUserActivityRecord", arg |-> login,
                         wrote |-> FALSE]
     ELSE LET created == SelectSeq(ReadKeys, LAMBDA k : k # login)
          IN  /\ keyOrder' = sortedData(created)
              /\ writtenKeys' = OwnPropertyKeys(sortedData(created))
              /\ orderOp' = [op |-> "removeUserActivityRecord",
                             arg |-> login, wrote |-> TRUE]
  /\ UNCHANGED <<storeVars, configVars, fetchVars, classVars, queryVars,
                 notifyVars>>

\* The keys of updateLastRun: read; writeWithSort().
OrderUpdateLastRun ==
  /\ keyOrder' = sortedData(ReadKeys)
  /\ writtenKeys' = OwnPropertyKeys(sortedData(ReadKeys))
  /\ orderOp' = [op |-> "updateLastRun", arg |-> "", wrote |-> TRUE]
  /\ UNCHANGED <<storeVars, configVars, fetchVars, classVars, queryVars,
                 notifyVars>>

(***************************************************************************)
(* GithubIssueNotifier and the issue tracker it talks to.  Every issue of  *)
(* the model carries the base labels; an issue's number is its index.      *)
(***************************************************************************)
ACTIVE == "became-active"
EXCLUDED == "admin-exclusion"
PENDING == "pending-removal"
REMOVED == "user-removed"

nConfigVars == <<assignUserToIssue, removeAccountSet, gracePeriodMillis>>

\* The logins the dormant sets are drawn from.
NotifierLogins == {"a", "b"}

\* No assignee parameter in the request.
AnyAssignee == NoStr

NewIssue(title, labels, assignees, t) ==
  [title |-> title, open |-> TRUE, labels |-> labels,
   assignees |-> assignees, createdAt |-> t, comments |-> {},
   reason |-> "none"]

RECURSIVE NewestFirst(_)
NewestFirst(ns) ==
  IF ns = {} THEN <<>>
  ELSE LET m == CHOOSE n \in ns : \A o \in ns : o <= n
       IN  <<m>> \o NewestFirst(ns \ {m})

\* Variant: the response holds every matching issue.
FirstPageUnlimited(list) == list

\* One response of a list endpoint: the request names no page, so the
\* response is the first page only.
FirstPage(list) ==
  SubSeq(list, 1, IF Len(list) < PerPage THEN Len(list) ELSE PerPage)

\* Variant: the listing is not restricted to open issues.
listForRepoAllStates(iss, assignee) ==
  FirstPage(NewestFirst(
    {n \in 1..Len(iss) :
       assignee = AnyAssignee \/ assignee \in iss[n].assignees}))

\* issues.listForRepo({state: 'open', labels: baseLabels, assignee}): the
\* numbers of the matching issues, newest first.
listForRepo(iss, assignee) ==
  FirstPage(NewestFirst(
    {n \in 1..Len(iss) :
       /\ iss[n].open
       /\ assignee = AnyAssignee \/ assignee \in iss[n].assignees}))

\* Variant: the dormant accounts are not filtered out.
findReactivatedUsersUnfiltered(iss, users) ==
  LET openIssues == listForRepo(iss, AnyAssignee)
  IN  [i \in 1..Len(openIssues) |-> iss[openIssues[i]].title]

\* findReactivatedUsers(dormantUsers): the titles of the open issues that
\* are not logins of the dormant set.
findReactivatedUsers(iss, users) ==
  LET openIssues == listForRepo(iss, AnyAssignee)
      titles == [i \in 1..Len(openIssues) |-> iss[openIssues[i]].title]
  IN  SelectSeq(titles, LAMBDA t : t \notin SeqRange(users))

\* The number of the first listed issue titled username, 0 for null.
getExistingNotification(iss, username) ==
  LET data == listForRepo(iss, IF assignUserToIssue THEN username
                               ELSE AnyAssignee)
      hits == SelectSeq(data, LAMBDA n : iss[n].title = username)
  IN  IF hits = <<>> THEN 0 ELSE hits[1]

hasLabel(issue, label) == label \in issue.labels

\* "throw" when the grace period does not parse to a positive duration.
hasGracePeriodExpired(notification, t) ==
  compareDatesAgainstDuration(gracePeriodMillis,
                              DateV(notification.createdAt), DateV(t))

\* One request that changes an issue.
ApplyCall(iss, n, call) ==
  CASE call = "commentRemoved" ->
         [iss EXCEPT ![n].comments = @ \cup {"removed"}]
    [] call = "commentActive" ->
         [iss EXCEPT ![n].comments = @ \cup {"active"}]
    [] call = "commentExcluded" ->
         [iss EXCEPT ![n].comments = @ \cup {"excluded"}]
    [] call = "labelRemoved" -> [iss EXCEPT ![n].labels = @ \cup {REMOVED}]
    [] call = "labelActive" -> [iss EXCEPT ![n].labels = @ \cup {ACTIVE}]
    [] call = "labelExcluded" -> [iss EXCEPT ![n].labels = @ \cup {EXCLUDED}]
    [] call = "unlabelPending" -> [iss EXCEPT ![n].labels = @ \ {PENDING}]
    [] call = "close" -> [iss EXCEPT ![n].open = FALSE]
    [] call = "closeNotPlanned" ->
         [iss EXCEPT ![n].open = FALSE, ![n].reason = "not_planned"]

RECURSIVE ApplyCalls(_, _, _)
ApplyCalls(iss, n, calls) ==
  IF calls = <<>> THEN iss
  ELSE ApplyCalls(ApplyCall(iss, n, calls[1]), n, Tail(calls))

\* Awaited one after the other: the calls before the failing one happen.
\* failAt = 0: none fails.
Sequentially(iss, n, calls, failAt) ==
  IF failAt = 0 \/ failAt > Len(calls)
  THEN [iss |-> ApplyCalls(iss, n, calls), rejected |-> FALSE]
  ELSE [iss |-> ApplyCalls(iss, n, SubSeq(calls, 1, failAt - 1)),
        rejected |-> TRUE]

RemovalCalls == <<"commentRemoved", "labelRemoved", "close", "unlabelPending">>

\* removeAccount(user, notification); hook is what config.removeAccount does.
notifierRemoveAccount(iss, n, hook, failAt) ==
  IF removeAccountSet /\ hook = "throw"
  THEN [iss |-> iss, rejected |-> TRUE]
  ELSE IF removeAccountSet /\ hook = "false"
  THEN [iss |-> iss, rejected |-> FALSE]
  ELSE Sequentially(iss, n, RemovalCalls, failAt)

ActiveCalls == <<"commentActive", "labelActive", "unlabelPending">>

\* closeNotificationForActiveUser: the three requests of Promise.all are
\* all sent; those in failed reject; then the issue is closed.
closeNotificationForActiveUser(iss, n, failed, closeOk) ==
  LET sent == ApplyCalls(iss, n, SelectSeq(ActiveCalls,
                                           LAMBDA c : c \notin failed))
  IN  IF failed # {} THEN [iss |-> sent, rejected |-> TRUE]
      ELSE IF ~closeOk THEN [iss |-> sent, rejected |-> TRUE]
      ELSE [iss |-> ApplyCall(sent, n, "closeNotPlanned"),
            rejected |-> FALSE]

\* Variant: the ticket is created without the pending-removal label.
notifyUserWithoutPending(iss, login, t) ==
  Append(iss, NewIssue(login, {},
                       IF assignUserToIssue THEN {login} ELSE {}, t))

\* notifyUser: issues.create.
notifyUser(iss, login, t) ==
  Append(iss, NewIssue(login, {PENDING},
                       IF assignUserToIssue THEN {login} ELSE {}, t))

EmptyResult ==
  [notified |-> <<>>, removed |-> <<>>, reactivated |-> <<>>,
   excluded |-> <<>>, inGracePeriod |-> <<>>, errors |-> <<>>]

Push(result, list, login, n) ==
  [result EXCEPT ![list] = Append(@, [user |-> login, number |-> n])]

\* No call of the exported getExistingNotification has been made.
NoLookup == [username |-> NoStr]

IdleNotifier ==
  /\ lookup = NoLookup
  /\ issues = <<>>
  /\ nDryRun = FALSE
  /\ assignUserToIssue = FALSE
  /\ removeAccountSet = FALSE
  /\ gracePeriodMillis = Num(1)
  /\ nPc = "idle"
  /\ nUsers = <<>>
  /\ nIdx = 1
  /\ nReactivated = <<>>
  /\ nRIdx = 1
  /\ nResult = EmptyResult
  /\ hookCalls = <<>>

\* Where processDormantUsers stands with these loop indices.
LoopPosition(users, i, reactivated, r) ==
  IF i <= Len(users) THEN "users"
  ELSE IF r <= Len(reactivated) THEN "reactivated"
  ELSE "returned"

\* new GithubIssueNotifier({..., dryRun}).processDormantUsers(users) up to
\* the first loop; findReactivatedUsers is awaited outside any try, so its
\* rejection rejects the call.
NotifyStart(users, isDryRun, listOk) ==
  /\ nPc = "idle"
  /\ nDryRun' = isDryRun
  /\ nUsers' = users
  /\ nResult' = EmptyResult
  /\ hookCalls' = <<>>
  /\ nIdx' = 1
  /\ nRIdx' = 1
  /\ IF listOk
     THEN /\ nReactivated' = findReactivatedUsers(issues, users)
          /\ nPc' = LoopPosition(users, 1,
                                 findReactivatedUsers(issues, users), 1)
     ELSE /\ nReactivated' = <<>>
          /\ nPc' = "rejected"
  /\ UNCHANGED <<issues, nConfigVars, lookup, storeVars, configVars, fetchVars,
                 classVars, queryVars, keyVars>>

\* One iteration of the first loop, on tracker iss with result res so far:
\* the tracker, the result and the hook invocations after it.
UserIteration(iss, res, hooks, reactivated, isDryRun, t, login, lookupOk, hook, failAt, createOk) ==
  LET n == getExistingNotification(iss, login)
      same == [iss |-> iss, hooks |-> hooks]
  IN
  IF login \in SeqRange(reactivated)
  THEN same @@ [res |-> res]
  ELSE IF ~lookupOk
  THEN same @@ [res |-> Push(res, "errors", login, 0)]
  ELSE IF n # 0
  THEN IF hasLabel(iss[n], EXCLUDED)
       THEN same @@ [res |-> Push(res, "excluded", login, n)]
       ELSE IF hasGracePeriodExpired(iss[n], t) = "throw"
       THEN same @@ [res |-> Push(res, "errors", login, 0)]
       ELSE IF hasGracePeriodExpired(iss[n], t) = "over"
       THEN IF ~isDryRun
            THEN LET done == notifierRemoveAccount(iss, n, hook, failAt)
                 IN  [iss |-> done.iss,
                      hooks |-> IF removeAccountSet
                                THEN Append(hooks, login)
                                ELSE hooks,
                      res |-> IF done.rejected
                              THEN Push(res, "errors", login, 0)
                              ELSE Push(res, "removed", login, n)]
            ELSE same @@ [res |-> Push(res, "removed", login, n)]
       ELSE same @@ [res |-> Push(res, "inGracePeriod", login, n)]
  ELSE IF ~isDryRun
  THEN IF createOk
       THEN [iss |-> notifyUser(iss, login, t), hooks |-> hooks,
             res |-> Push(res, "notified", login, Len(iss) + 1)]
       ELSE same @@ [res |-> Push(res, "errors", login, 0)]
  ELSE same @@ [res |-> Push(res, "notified", login, 0)]

\* What one iteration of the first loop does to the tracker and the result.
ProcessUser(login, lookupOk, hook, failAt, createOk) ==
  UserIteration(issues, nResult, hookCalls, nReactivated, nDryRun, now,
                login, lookupOk, hook, failAt, createOk)

\* One iteration of the loop over users (lines 412-467).
NotifyUserStep(lookupOk, hook, failAt, createOk) ==
  /\ nPc = "users"
  /\ LET step == ProcessUser(nUsers[nIdx], lookupOk, hook, failAt, createOk)
     IN  /\ issues' = step.iss
         /\ nResult' = step.res
         /\ hookCalls' = step.hooks
  /\ nIdx' = nIdx + 1
  /\ nPc' = LoopPosition(nUsers, nIdx + 1, nReactivated, nRIdx)
  /\ UNCHANGED <<nDryRun, nUsers, nReactivated, nRIdx, nConfigVars, lookup, storeVars,
                 configVars, fetchVars, classVars, queryVars, keyVars>>

\* One iteration of the second loop, on tracker iss with result res so far.
ReactivatedIteration(iss, res, isDryRun, username, lookupOk, failed, closeOk) ==
  LET n == getExistingNotification(iss, username)
  IN
  IF ~lookupOk
  THEN [iss |-> iss, res |-> Push(res, "errors", username, 0)]
  ELSE IF n = 0
  THEN [iss |-> iss, res |-> res]
  ELSE IF ~isDryRun
  THEN LET done == closeNotificationForActiveUser(iss, n, failed, closeOk)
       IN  [iss |-> done.iss,
            res |-> IF done.rejected
                    THEN Push(res, "errors", username, 0)
                    ELSE Push(res, "reactivated", username, n)]
  ELSE [iss |-> iss, res |-> Push(res, "reactivated", username, n)]

\* What one iteration of the second loop does.
ProcessReactivated(username, lookupOk, failed, closeOk) ==
  ReactivatedIteration(issues, nResult, nDryRun, username, lookupOk, failed,
                       closeOk)

\* One iteration of the loop over reactivatedUsers (lines 470-486).
NotifyReactivatedStep(lookupOk, failed, closeOk) ==
  /\ nPc = "reactivated"
  /\ LET step == ProcessReactivated(nReactivated[nRIdx], lookupOk, failed,
                                    closeOk)
     IN  /\ issues' = step.iss
         /\ nResult' = step.res
  /\ nRIdx' = nRIdx + 1
  /\ nPc' = LoopPosition(nUsers, nIdx, nReactivated, nRIdx + 1)
  /\ UNCHANGED <<nDryRun, nUsers, nIdx, nReactivated, hookCalls,
                 nConfigVars, lookup, storeVars, configVars, fetchVars, classVars,
                 queryVars, keyVars>>

\* markAdminExclusion(user, notification, reason) on an open notification,
\* between two invocations.
MarkAdminExclusion(n) ==
  /\ nPc = "idle"
  /\ n \in 1..Len(issues)
  /\ issues[n].open
  /\ issues' = ApplyCalls(issues, n, <<"commentExcluded", "labelExcluded">>)
  /\ UNCHANGED <<nDryRun, nPc, nUsers, nIdx, nReactivated, nRIdx, nResult, hookCalls,
                 nConfigVars, lookup, storeVars, configVars, fetchVars, classVars,
                 queryVars, keyVars>>

\* The clock advances between two invocations.
NotifyClock ==
  /\ nPc = "idle"
  /\ Tick

\* The caller is done with the result (or the rejection) of the invocation.
NotifyDone ==
  /\ nPc \in {"returned", "rejected"}
  /\ nPc' = "idle"
  /\ nDryRun' = FALSE
  /\ nUsers' = <<>>
  /\ nIdx' = 1
  /\ nReactivated' = <<>>
  /\ nRIdx' = 1
  /\ nResult' = EmptyResult
  /\ hookCalls' = <<>>
  /\ UNCHANGED <<issues, nConfigVars, lookup, storeVars, configVars, fetchVars,
                 classVars, queryVars, keyVars>>

\* The first loop from index i on, every request succeeding and the hook
\* returning true: the tracker and the result when the loop ends.
RECURSIVE UsersLoop(_, _, _, _, _, _, _)
UsersLoop(iss, res, reactivated, isDryRun, t, users, i) ==
  IF i > Len(users) THEN [iss |-> iss, res |-> res]
  ELSE LET step == UserIteration(iss, res, <<>>, reactivated, isDryRun, t,
                                 users[i], TRUE, "true", 0, TRUE)
       IN  UsersLoop(step.iss, step.res, reactivated, isDryRun, t, users,
                     i + 1)

\* The second loop from index r on, every request succeeding.
RECURSIVE ReactivatedLoop(_, _, _, _, _)
ReactivatedLoop(iss, res, reactivated, isDryRun, r) ==
  IF r > Len(reactivated) THEN [iss |-> iss, res |-> res]
  ELSE LET step == ReactivatedIteration(iss, res, isDryRun, reactivated[r],
                                        TRUE, {}, TRUE)
       IN  ReactivatedLoop(step.iss, step.res, reactivated, isDryRun, r + 1)

\* processDormantUsers(users) as a whole, every request succeeding.
processDormantUsers(iss, users, isDryRun, t) ==
  LET reactivated == findReactivatedUsers(iss, users)
      first == UsersLoop(iss, EmptyResult, reactivated, isDryRun, t, users, 1)
  IN  ReactivatedLoop(first.iss, first.res, reactivated, isDryRun, 1)

(***************************************************************************)
(* The trackers one invocation can meet.  A ticket is what notifyUser      *)
(* created, followed by the requests earlier invocations and the admin     *)
(* made on it; a tracker holds at most one ticket per login.               *)
(***************************************************************************)
TicketHistories ==
  { <<>>,
    <<"commentExcluded", "labelExcluded">>,
    RemovalCalls,
    ActiveCalls \o <<"closeNotPlanned">>,
    <<"commentRemoved", "labelRemoved">> }

Tickets(login) ==
  { ApplyCalls(<<NewIssue(login, {PENDING},
                          IF assignUserToIssue THEN {login} ELSE {}, t)>>,
               1, calls)[1] :
      t \in 0..MaxTime, calls \in TicketHistories }

Trackers ==
  {<<>>}
    \cup UNION {{<<x>> : x \in Tickets(l)} : l \in NotifierLogins}
    \cup UNION {{<<x, y>> : x \in Tickets(l), y \in Tickets(m)} :
                  l \in NotifierLogins, m \in NotifierLogins}

(***************************************************************************)
(* Initial states: no document yet, or a document left by an earlier run   *)
(* of this check, of a foreign check, or one with an empty tag.            *)
(***************************************************************************)
InitFiles ==
  {NoFile} \cup {Stringify(DefaultData(ct)) : ct \in CheckTypes}

DefaultConfig ==
  /\ activityResultType = "partial"
  /\ dryRun = FALSE
  /\ customLog = FALSE
  /\ removeUserSet = FALSE

Init ==
  /\ file \in InitFiles
  /\ mem = DefaultData(Self)
  /\ now = 0
  /\ ret = Ret("new", "", "ok", FALSE, Undef)
  /\ DefaultConfig
  /\ IdleCycle
  /\ IdleClass
  /\ IdlePass
  /\ IdleSummary
  /\ IdleKeys
  /\ IdleNotifier

Next ==
  \/ getLastRun
  \/ updateLastRun
  \/ \E rec \in Records : updateUserActivity(rec)
  \/ \E login \in Keys : removeUserActivityRecord(login)
  \/ getActivityRecords
  \/ getRawData
  \/ NewDatabase
  \/ Tick

Spec == Init /\ [][Next]_vars

(***************************************************************************)
(* The fetch cycle: the document left by earlier runs holds any subset of  *)
(* the logins; the configuration is fixed at construction.                 *)
(***************************************************************************)
StoredDoc(ct, ks) ==
  [keys |-> ks \cup {StateKey},
   val |-> [k \in Keys |->
              IF k = StateKey THEN StateData(ct, Iso(1), Iso(1))
              ELSE IF k \in ks
              THEN [AbsentEntry EXCEPT !.lastActivity = Iso(0),
                                       !.type = "test"]
              ELSE AbsentEntry]]

FetchInitFiles ==
  {NoFile} \cup {StoredDoc(ct, ks) : ct \in {Self, Other},
                                      ks \in {{}, {"b"}, Logins}}

FetchInit ==
  /\ file \in FetchInitFiles
  /\ mem = DefaultData(Self)
  /\ now = 1
  /\ ret = Ret("new", "", "ok", FALSE, Undef)
  /\ activityResultType \in {"partial", "complete"}
  /\ dryRun \in BOOLEAN
  /\ customLog \in BOOLEAN
  /\ removeUserSet \in BOOLEAN
  /\ IdleCycle
  /\ IdleClass
  /\ IdlePass
  /\ IdleSummary
  /\ IdleKeys
  /\ IdleNotifier

FetchNext ==
  \/ \E lastFetchTime \in Overrides : FetchStart(lastFetchTime)
  \/ FetchGetLastRun
  \/ \E batch \in Batches : FetchResolve(batch)
  \/ FetchReject
  \/ \E ok \in BOOLEAN : WriterStep(ok)
  \/ \E i \in 1..MaxBatch, ok \in BOOLEAN : LogSettle(i, ok)
  \/ LoggingReject
  \/ LoggingDone
  \/ ReconcileRemove
  \/ ReconcileDone
  \/ FetchUpdateLastRun
  \/ listAccounts
  \/ Tick

FetchSpec == FetchInit /\ [][FetchNext]_vars

(***************************************************************************)
(* The default dormancy predicate over every threshold, check instant and  *)
(* last activity of the bounds.                                            *)
(***************************************************************************)
DormancyInit ==
  /\ file = NoFile
  /\ mem = DefaultData(Self)
  /\ now = 0
  /\ ret = Ret("new", "", "ok", FALSE, Undef)
  /\ DefaultConfig
  /\ IdleCycle
  /\ clsDuration \in DurationMillisValues
  /\ clsCheckTime \in {DateV(t) : t \in 0..MaxCheckTime}
  /\ clsLastActivity \in {Null} \cup {DateV(t) : t \in 0..MaxCheckTime}
  /\ clsResult = "none"
  /\ IdlePass
  /\ IdleSummary
  /\ IdleKeys
  /\ IdleNotifier

DormancyNext == EvalDefaultDormancy

DormancySpec == DormancyInit /\ [][DormancyNext]_vars

(***************************************************************************)
(* Classification passes: over no document, a document of this check with  *)
(* any subset of the logins, each with or without recorded activity, or a  *)
(* document of a foreign check; predicates supplied or not.                *)
(***************************************************************************)
PassDoc(ct, ks, nulls) ==
  [keys |-> ks \cup {StateKey},
   val |-> [k \in Keys |->
              IF k = StateKey THEN StateData(ct, Iso(0), Iso(0))
              ELSE IF k \in ks
              THEN [AbsentEntry EXCEPT
                      !.lastActivity = IF k \in nulls THEN Null ELSE Iso(0),
                      !.type = "test"]
              ELSE AbsentEntry]]

PassFiles ==
  {NoFile, PassDoc(Other, {}, {})}
    \cup {PassDoc(Self, ks, nulls) : ks \in SUBSET Logins,
                                      nulls \in SUBSET Logins}

ClassifyInit ==
  /\ file \in PassFiles
  /\ mem = DefaultData(Self)
  /\ now = 0
  /\ ret = Ret("new", "", "ok", FALSE, Undef)
  /\ DefaultConfig
  /\ IdleCycle
  /\ clsDuration \in {Num(0), Num(1)}
  /\ clsCheckTime = DateV(0)
  /\ clsLastActivity = Null
  /\ clsResult = "none"
  /\ isWhitelistedSet \in BOOLEAN
  /\ isDormantSet \in BOOLEAN
  /\ passPc = "idle"
  /\ capturedCheckTime = 0
  /\ acctStatus = [l \in Logins |-> "none"]
  /\ dormancyInstants = {}
  /\ dormancyCalls = {}
  /\ resActive = <<>>
  /\ resDormant = <<>>
  /\ passErr = NoError
  /\ IdleSummary
  /\ IdleKeys
  /\ IdleNotifier

ClassifyNext ==
  \/ PassStart
  \/ \E login \in Logins, outcome \in {"true", "false", "reject"} :
       WhitelistSettle(login, outcome)
  \/ \E login \in Logins, outcome \in {"dormant", "active", "throw"} :
       DormancySettle(login, outcome)
  \/ PassResolve
  \/ PassSummarize
  \/ Tick

ClassifySpec == ClassifyInit /\ [][ClassifyNext]_vars

(***************************************************************************)
(* The arithmetic of summarize() over every pair of list lengths of the    *)
(* bound.                                                                  *)
(***************************************************************************)
SummaryInit ==
  /\ file = NoFile
  /\ mem = DefaultData(Self)
  /\ now = 0
  /\ ret = Ret("new", "", "ok", FALSE, Undef)
  /\ DefaultConfig
  /\ IdleCycle
  /\ IdleClass
  /\ IdlePass
  /\ sumActive \in 0..MaxCount
  /\ sumDormant \in 0..MaxCount
  /\ summary = NoSummary
  /\ IdleKeys
  /\ IdleNotifier

SummaryNext == SummarizeCounts

SummarySpec == SummaryInit /\ [][SummaryNext]_vars

(***************************************************************************)
(* The key order of the document under every sequence of mutating store    *)
(* operations over the logins of OrderLogins.                              *)
(***************************************************************************)
KeyOrderInit ==
  /\ file = NoFile
  /\ mem = DefaultData(Self)
  /\ now = 0
  /\ ret = Ret("new", "", "ok", FALSE, Undef)
  /\ DefaultConfig
  /\ IdleCycle
  /\ IdleClass
  /\ IdlePass
  /\ IdleSummary
  /\ IdleKeys
  /\ IdleNotifier

KeyOrderNext ==
  \/ \E login \in OrderLogins \cup {StateKey} : OrderUpdateUserActivity(login)
  \/ \E login \in OrderLogins \cup {StateKey} :
       OrderRemoveUserActivityRecord(login)
  \/ OrderUpdateLastRun

KeyOrderSpec == KeyOrderInit /\ [][KeyOrderNext]_vars

(***************************************************************************)
(* The notifier under every fixed repository and hook configuration:       *)
(* invocations of processDormantUsers one after the other, each a dry run  *)
(* or not, with the clock advancing in between.  A request either succeeds *)
(* or fails; a removal or a close that fails does so at its first request. *)
(* The tracker holds at most MaxIssues issues.                             *)
(***************************************************************************)
NotifyInit ==
  /\ file = NoFile
  /\ mem = DefaultData(Self)
  /\ now = 0
  /\ ret = Ret("new", "", "ok", FALSE, Undef)
  /\ DefaultConfig
  /\ IdleCycle
  /\ IdleClass
  /\ IdlePass
  /\ IdleSummary
  /\ IdleKeys
  /\ lookup = NoLookup
  /\ issues = <<>>
  /\ nDryRun = FALSE
  /\ assignUserToIssue \in BOOLEAN
  /\ removeAccountSet \in BOOLEAN
  /\ gracePeriodMillis = Num(1)
  /\ nPc = "idle"
  /\ nUsers = <<>>
  /\ nIdx = 1
  /\ nReactivated = <<>>
  /\ nRIdx = 1
  /\ nResult = EmptyResult
  /\ hookCalls = <<>>

NotifyNext ==
  \/ \E us \in SUBSET NotifierLogins, isDryRun \in BOOLEAN,
        listOk \in BOOLEAN :
       NotifyStart(SortedKeys(us), isDryRun, listOk)
  \/ \E lookupOk \in BOOLEAN, hook \in {"true", "false", "throw"},
        failAt \in 0..1, createOk \in BOOLEAN :
       /\ NotifyUserStep(lookupOk, hook, failAt, createOk)
       /\ Len(issues') <= MaxIssues
  \/ \E lookupOk \in BOOLEAN, failed \in {{}, SeqRange(ActiveCalls)},
        closeOk \in BOOLEAN :
       NotifyReactivatedStep(lookupOk, failed, closeOk)
  \/ NotifyDone
  \/ NotifyClock

NotifySpec == NotifyInit /\ [][NotifyNext]_vars

(***************************************************************************)
(* One invocation of processDormantUsers on a tracker earlier invocations  *)
(* left behind, under every configuration, with every request of the       *)
(* invocation failing or not.                                              *)
(***************************************************************************)
InvocationInit ==
  /\ file = NoFile
  /\ mem = DefaultData(Self)
  /\ now = MaxTime
  /\ ret = Ret("new", "", "ok", FALSE, Undef)
  /\ DefaultConfig
  /\ IdleCycle
  /\ IdleClass
  /\ IdlePass
  /\ IdleSummary
  /\ IdleKeys
  /\ lookup = NoLookup
  /\ assignUserToIssue \in BOOLEAN
  /\ removeAccountSet \in BOOLEAN
  /\ issues \in {tr \in Trackers :
                   /\ \A i \in 1..Len(tr) : \A j \in 1..Len(tr) :
                        /\ i < j => tr[i].createdAt <= tr[j].createdAt
                        /\ i # j => tr[i].title # tr[j].title}
  /\ nDryRun = FALSE
  /\ gracePeriodMillis = Num(1)
  /\ nPc = "idle"
  /\ nUsers = <<>>
  /\ nIdx = 1
  /\ nReactivated = <<>>
  /\ nRIdx = 1
  /\ nResult = EmptyResult
  /\ hookCalls = <<>>

InvocationNext ==
  \/ \E us \in SUBSET NotifierLogins, isDryRun \in BOOLEAN,
        listOk \in BOOLEAN :
       NotifyStart(SortedKeys(us), isDryRun, listOk)
  \/ \E lookupOk \in BOOLEAN, hook \in {"true", "false", "throw"},
        failAt \in 0..Len(RemovalCalls), createOk \in BOOLEAN :
       NotifyUserStep(lookupOk, hook, failAt, createOk)
  \/ \E lookupOk \in BOOLEAN, failed \in SUBSET SeqRange(ActiveCalls),
        closeOk \in BOOLEAN :
       NotifyReactivatedStep(lookupOk, failed, closeOk)

InvocationSpec == InvocationInit /\ [][InvocationNext]_vars

(***************************************************************************)
(* The exported getExistingNotification (getExistingNotification.ts): the  *)
(* structured issue search first, the REST listing when that throws.  It   *)
(* shares its name with the notifier's private method above, so the model  *)
(* calls it lookupExistingNotification.                                    *)
(***************************************************************************)
\* search(query: ..., first: 50): the size of the one page that is read.
SearchFirst == 50

\* The titles of the tracker one lookup meets: two logins and a login that
\* has the first one as a word.
LookupTitles == {"a", "b", "a-b"}

\* in:title matches the words of a title.
TitleWords(title) ==
  CASE title = "a-b" -> {"a", "b"}
    [] OTHER -> {title}

\* sort:created-asc.
OldestFirst(ns) ==
  LET newest == NewestFirst(ns)
  IN  [i \in 1..Len(newest) |-> newest[Len(newest) + 1 - i]]

\* The nodes of the search `repo:... in:title username state:open
\* label:... [assignee:username] sort:created-asc`, first page.
searchIssues(iss, username) ==
  LET nodes == OldestFirst(
        {n \in 1..Len(iss) :
           /\ iss[n].open
           /\ username \in TitleWords(iss[n].title)
           /\ assignUserToIssue => username \in iss[n].assignees})
  IN  SubSeq(nodes, 1,
             IF Len(nodes) < SearchFirst THEN Len(nodes) ELSE SearchFirst)

\* getNotifications({state: 'open', labels, assignee}): every page of the
\* listing, newest first.
getNotifications(iss, assignee) ==
  NewestFirst(
    {n \in 1..Len(iss) :
       /\ iss[n].open
       /\ assignee = AnyAssignee \/ assignee \in iss[n].assignees})

\* issues.find(issue => issue.title === username) || null, 0 for null.
FindTitle(iss, list, username) ==
  LET hits == SelectSeq(list, LAMBDA n : iss[n].title = username)
  IN  IF hits = <<>> THEN 0 ELSE hits[1]

fallbackToRestApi(iss, username, restOk) ==
  IF ~restOk
  THEN [path |-> "rest", outcome |-> "rejected", value |-> 0]
  ELSE [path |-> "rest", outcome |-> "resolved",
        value |-> FindTitle(iss,
                    getNotifications(iss, IF assignUserToIssue THEN username
                                          ELSE AnyAssignee),
                    username)]

\* Variant: the first node of the search is taken as the notification.
lookupFirstNode(iss, username, graphqlOk, restOk) ==
  IF graphqlOk
  THEN [path |-> "graphql", outcome |-> "resolved",
        value |-> IF searchIssues(iss, username) = <<>> THEN 0
                  ELSE searchIssues(iss, username)[1]]
  ELSE fallbackToRestApi(iss, username, restOk)

\* getExistingNotification(options): try the search, catch into the
\* fallback.
lookupExistingNotification(iss, username, graphqlOk, restOk) ==
  IF graphqlOk
  THEN [path |-> "graphql", outcome |-> "resolved",
        value |-> FindTitle(iss, searchIssues(iss, username), username)]
  ELSE fallbackToRestApi(iss, username, restOk)

\* One call of getExistingNotification for username; the search and the
\* listing each succeed or throw.
Lookup(username, graphqlOk, restOk) ==
  /\ nPc = "idle"
  /\ lookup' = [username |-> username, graphqlOk |-> graphqlOk,
                restOk |-> restOk]
                 @@ lookupExistingNotification(issues, username, graphqlOk,
                                               restOk)
  /\ UNCHANGED <<issues, nDryRun, nPc, nUsers, nIdx, nReactivated, nRIdx,
                 nResult, hookCalls, nConfigVars, storeVars, configVars,
                 fetchVars, classVars, queryVars, keyVars>>

\* A ticket as notifyUser created it, still open or closed by a removal.
LookupTickets ==
  { ApplyCalls(<<NewIssue(title, {PENDING}, assignees, 0)>>, 1, calls)[1] :
      title \in LookupTitles, assignees \in {{}, {"a"}, {"a-b"}},
      calls \in {<<>>, RemovalCalls} }

LookupTrackers ==
  UNION {[1..k -> LookupTickets] : k \in 0..(MaxIssues - 1)}

LookupInit ==
  /\ file = NoFile
  /\ mem = DefaultData(Self)
  /\ now = 0
  /\ ret = Ret("new", "", "ok", FALSE, Undef)
  /\ DefaultConfig
  /\ IdleCycle
  /\ IdleClass
  /\ IdlePass
  /\ IdleSummary
  /\ IdleKeys
  /\ lookup = NoLookup
  /\ assignUserToIssue \in BOOLEAN
  /\ removeAccountSet = FALSE
  /\ issues \in LookupTrackers
  /\ nDryRun = FALSE
  /\ gracePeriodMillis = Num(1)
  /\ nPc = "idle"
  /\ nUsers = <<>>
  /\ nIdx = 1
  /\ nReactivated = <<>>
  /\ nRIdx = 1
  /\ nResult = EmptyResult
  /\ hookCalls = <<>>

LookupNext ==
  \E username \in NotifierLogins, graphqlOk \in BOOLEAN,
     restOk \in BOOLEAN :
    Lookup(username, graphqlOk, restOk)

LookupSpec == LookupInit /\ [][LookupNext]_vars

(***************************************************************************)
(* removeCopilotLicense, the removal hook of the action: the seat details  *)
(* are read, then the license is revoked or the user is removed from the   *)
(* assigning team, then the record is removed from the store.              *)
(***************************************************************************)
\* What getCopilotSeatDetailsForUser answers and what the action is
\* configured with; callResult is what the removal call does when made.
Seats ==
  [seatOk : BOOLEAN, pending : BOOLEAN, team : BOOLEAN,
   removeDormantAccounts : BOOLEAN, allowTeamRemoval : BOOLEAN,
   callResult : {"true", "false", "throw"}]

\* The outcome when no removal call and no store operation is made.
LicenseUntouched(memData, fileDoc, outcome) ==
  [outcome |-> outcome, call |-> "none", data |-> memData,
   file |-> fileDoc, wrote |-> FALSE]

\* Variant: the record is removed from the store whatever the removal call
\* returned.
removeCopilotLicenseAlwaysRemoving(memData, fileDoc, login, seat, t) ==
  LET call == IF seat.team THEN "team" ELSE "revoke"
      r == removeUserActivityRecordData(memData, fileDoc, login, t)
  IN  IF ~seat.seatOk THEN LicenseUntouched(memData, fileDoc, "rejected")
      ELSE IF seat.pending THEN LicenseUntouched(memData, fileDoc, "true")
      ELSE IF ~seat.removeDormantAccounts
      THEN LicenseUntouched(memData, fileDoc, "false")
      ELSE IF seat.team /\ ~seat.allowTeamRemoval
      THEN LicenseUntouched(memData, fileDoc, "false")
      ELSE IF seat.callResult = "throw"
      THEN [LicenseUntouched(memData, fileDoc, "rejected")
              EXCEPT !.call = call]
      ELSE [outcome |-> IF r.outcome = "mismatch" THEN "rejected"
                        ELSE seat.callResult,
            call |-> call, data |-> r.data, file |-> r.file,
            wrote |-> r.wrote]

\* removeCopilotLicense({lastActivityRecord, removeDormantAccounts,
\* allowTeamRemoval, activity}).
removeCopilotLicense(memData, fileDoc, login, seat, t) ==
  LET call == IF seat.team THEN "team" ELSE "revoke"
      r == removeUserActivityRecordData(memData, fileDoc, login, t)
  IN  IF ~seat.seatOk THEN LicenseUntouched(memData, fileDoc, "rejected")
      ELSE IF seat.pending THEN LicenseUntouched(memData, fileDoc, "true")
      ELSE IF ~seat.removeDormantAccounts
      THEN LicenseUntouched(memData, fileDoc, "false")
      ELSE IF seat.team /\ ~seat.allowTeamRemoval
      THEN LicenseUntouched(memData, fileDoc, "false")
      ELSE IF seat.callResult = "throw"
      THEN [LicenseUntouched(memData, fileDoc, "rejected")
              EXCEPT !.call = call]
      ELSE IF seat.callResult = "false"
      THEN [LicenseUntouched(memData, fileDoc, "false")
              EXCEPT !.call = call]
      ELSE [outcome |-> IF r.outcome = "mismatch" THEN "rejected"
                        ELSE "true",
            call |-> call, data |-> r.data, file |-> r.file,
            wrote |-> r.wrote]

\* One call of the hook for login.
RemoveCopilotLicense(login, seat) ==
  LET r == removeCopilotLicense(mem, file, login, seat, now)
  IN  /\ mem' = r.data
      /\ file' = r.file
      /\ ret' = Ret("removeCopilotLicense", login, r.outcome, r.wrote,
                    [seat |-> seat, call |-> r.call])
      /\ UNCHANGED <<now, configVars, engineVars, fetchVars>>

\* The documents the hook meets: the action has run fetchActivity on the
\* store before, so the document is of this check.
LicenseInitFiles == {StoredDoc(Self, ks) : ks \in SUBSET Logins}

LicenseInit ==
  /\ file \in LicenseInitFiles
  /\ mem \in {DefaultData(Self), file}
  /\ now = 1
  /\ ret = Ret("new", "", "ok", FALSE, Undef)
  /\ DefaultConfig
  /\ IdleCycle
  /\ IdleClass
  /\ IdlePass
  /\ IdleSummary
  /\ IdleKeys
  /\ IdleNotifier

LicenseNext ==
  \E login \in Logins, seat \in Seats : RemoveCopilotLicense(login, seat)

LicenseSpec == LicenseInit /\ [][LicenseNext]_vars

(***************************************************************************)
(* The flow of the action (run.ts): after fetchActivity, the dormant list, *)
(* the active list and the summary are computed by three calls, each with  *)
(* its own classification pass, and the dormant list is handed to          *)
(* processDormantUsers with removeCopilotLicense as the removal hook.  The *)
(* action configures no whitelist and no dormancy predicate, so a pass is  *)
(* decided by the document and by the instant it captures.                 *)
(***************************************************************************)
\* getAccountStatuses() with the default predicates at check instant t.
getAccountStatuses(memData, fileDoc, t) ==
  LET r == getActivityRecordsData(memData, fileDoc)
      status == [l \in r.logins |->
                   defaultDormancyHandler(
                     DateV(t), recordActivity(r.data.val[l].lastActivity),
                     clsDuration)]
  IN  IF r.outcome # "ok"
      THEN [outcome |-> r.outcome, data |-> r.data, active |-> <<>>,
            dormant |-> <<>>]
      ELSE IF \E l \in r.logins : status[l] = "throw"
      THEN [outcome |-> "throw", data |-> r.data, active |-> <<>>,
            dormant |-> <<>>]
      ELSE [outcome |-> "ok", data |-> r.data,
            active |-> SortedKeys({l \in r.logins : status[l] = "active"}),
            dormant |-> SortedKeys({l \in r.logins : status[l] = "dormant"})]

\* What a call of the flow leaves unchanged besides its own result.
FlowCallFrame ==
  UNCHANGED <<file, now, ret, configVars, fetchVars, classVars, keyVars,
              notifyVars, isWhitelistedSet, isDormantSet, acctStatus,
              dormancyInstants, dormancyCalls>>

\* const dormantAccounts = await check.listDormantAccounts()
ListDormantAccounts ==
  /\ passPc = "idle"
  /\ LET r == getAccountStatuses(mem, file, now)
     IN  /\ mem' = r.data
         /\ capturedCheckTime' = now
         /\ resDormant' = r.dormant
         /\ passPc' = IF r.outcome = "ok" THEN "listedDormant" ELSE "rejected"
         /\ passErr' = IF r.outcome = "ok" THEN passErr
                       ELSE [login |-> "", by |-> r.outcome]
  /\ UNCHANGED <<resActive, sumVars>>
  /\ FlowCallFrame

\* const activeAccounts = await check.listActiveAccounts()
ListActiveAccounts ==
  /\ passPc = "listedDormant"
  /\ LET r == getAccountStatuses(mem, file, now)
     IN  /\ mem' = r.data
         /\ capturedCheckTime' = now
         /\ resActive' = r.active
         /\ passPc' = IF r.outcome = "ok" THEN "listedActive" ELSE "rejected"
         /\ passErr' = IF r.outcome = "ok" THEN passErr
                       ELSE [login |-> "", by |-> r.outcome]
  /\ UNCHANGED <<resDormant, sumVars>>
  /\ FlowCallFrame

\* const summary = await check.summarize()
Summarize ==
  /\ passPc = "listedActive"
  /\ LET r == getAccountStatuses(mem, file, now)
     IN  /\ mem' = r.data
         /\ capturedCheckTime' = now
         /\ IF r.outcome = "ok"
            THEN /\ sumActive' = Len(r.active)
                 /\ sumDormant' = Len(r.dormant)
                 /\ summary' = summarizeOf(
                                 Len(r.active), Len(r.dormant),
                                 NewDate(r.data.val[StateKey].lastRun))
                 /\ passPc' = "summarized"
                 /\ passErr' = passErr
            ELSE /\ UNCHANGED sumVars
                 /\ passPc' = "rejected"
                 /\ passErr' = [login |-> "", by |-> r.outcome]
  /\ UNCHANGED <<resActive, resDormant>>
  /\ FlowCallFrame

\* processNotifications(octokit, context, dormantAccounts, check, ...):
\* notifier.processDormantUsers(dormantAccounts) starts.
ProcessNotifications(listOk) ==
  /\ passPc = "summarized"
  /\ NotifyStart(resDormant, dryRun, listOk)

\* One iteration of the first loop with removeCopilotLicense as the hook:
\* when the hook is invoked, what it does to the store is part of the step.
HookUserStep(lookupOk, seat, failAt, createOk) ==
  /\ nPc = "users"
  /\ LET license == removeCopilotLicense(mem, file, nUsers[nIdx], seat, now)
         hook == IF license.outcome = "rejected" THEN "throw"
                 ELSE license.outcome
         step == ProcessUser(nUsers[nIdx], lookupOk, hook, failAt, createOk)
         invoked == step.hooks # hookCalls
     IN  /\ issues' = step.iss
         /\ nResult' = step.res
         /\ hookCalls' = step.hooks
         /\ mem' = IF invoked THEN license.data ELSE mem
         /\ file' = IF invoked THEN license.file ELSE file
  /\ nIdx' = nIdx + 1
  /\ nPc' = LoopPosition(nUsers, nIdx + 1, nReactivated, nRIdx)
  /\ UNCHANGED <<nDryRun, nUsers, nReactivated, nRIdx, nConfigVars, lookup,
                 now, ret, configVars, fetchVars, classVars, queryVars,
                 keyVars>>

\* The store after fetchActivity: any of the two accounts, with or without
\* recorded activity.  The tracker: for each account no ticket or the open
\* ticket an earlier run created, whether the store still holds the account
\* or a complete-snapshot reconciliation has removed it.
FlowFiles ==
  {PassDoc(Self, ks, nulls) : ks \in SUBSET NotifierLogins,
                              nulls \in SUBSET NotifierLogins}

FlowTrackers ==
  {SelectSeq(<<NewIssue("a", {PENDING}, {}, 0),
               NewIssue("b", {PENDING}, {}, 0)>>,
             LAMBDA n : n.title \in ks) : ks \in SUBSET NotifierLogins}

FlowInit ==
  /\ file \in FlowFiles
  /\ mem = file
  /\ now = 0
  /\ ret = Ret("new", "", "ok", FALSE, Undef)
  /\ activityResultType = "complete"
  /\ dryRun \in BOOLEAN
  /\ customLog = FALSE
  /\ removeUserSet = FALSE
  /\ IdleCycle
  /\ IdleClass
  /\ IdlePass
  /\ IdleSummary
  /\ IdleKeys
  /\ lookup = NoLookup
  /\ issues \in FlowTrackers
  /\ nDryRun = FALSE
  /\ assignUserToIssue = FALSE
  /\ removeAccountSet = TRUE
  /\ gracePeriodMillis = Num(1)
  /\ nPc = "idle"
  /\ nUsers = <<>>
  /\ nIdx = 1
  /\ nReactivated = <<>>
  /\ nRIdx = 1
  /\ nResult = EmptyResult
  /\ hookCalls = <<>>

FlowNext ==
  \/ ListDormantAccounts
  \/ ListActiveAccounts
  \/ Summarize
  \/ \E listOk \in BOOLEAN : ProcessNotifications(listOk)
  \/ \E lookupOk \in BOOLEAN, seat \in Seats,
        failAt \in 0..Len(RemovalCalls), createOk \in BOOLEAN :
       HookUserStep(lookupOk, seat, failAt, createOk)
  \/ \E lookupOk \in BOOLEAN, failed \in SUBSET SeqRange(ActiveCalls),
        closeOk \in BOOLEAN :
       NotifyReactivatedStep(lookupOk, failed, closeOk)
  \/ Tick

FlowSpec == FlowInit /\ [][FlowNext]_vars

(***************************************************************************)
(* One invocation on a tracker holding one open ticket, over every grace   *)
(* period, creation instant and clock reading of the bounds.               *)
(***************************************************************************)
GraceInit ==
  /\ file = NoFile
  /\ mem = DefaultData(Self)
  /\ now \in 0..MaxCheckTime
  /\ ret = Ret("new", "", "ok", FALSE, Undef)
  /\ DefaultConfig
  /\ IdleCycle
  /\ IdleClass
  /\ IdlePass
  /\ IdleSummary
  /\ IdleKeys
  /\ lookup = NoLookup
  /\ assignUserToIssue \in BOOLEAN
  /\ removeAccountSet \in BOOLEAN
  /\ gracePeriodMillis \in DurationMillisValues
  /\ issues \in {<<NewIssue(l, {PENDING},
                            IF assignUserToIssue THEN {l} ELSE {}, t)>> :
                   l \in NotifierLogins, t \in 0..MaxTime}
  /\ nDryRun = FALSE
  /\ nPc = "idle"
  /\ nUsers = <<>>
  /\ nIdx = 1
  /\ nReactivated = <<>>
  /\ nRIdx = 1
  /\ nResult = EmptyResult
  /\ hookCalls = <<>>

GraceSpec == GraceInit /\ [][InvocationNext]_vars

(***************************************************************************)
(* Properties of the store.                                                *)
(***************************************************************************)
StoreCall ==
  \/ getLastRun
  \/ updateLastRun
  \/ \E rec \in Records : updateUserActivity(rec)
  \/ \E login \in Keys : removeUserActivityRecord(login)
  \/ getActivityRecords
  \/ getRawData

\* C1: on an existing document stamped with a different, non-empty check
\* identity every store operation fails with the identity-mismatch error and
\* leaves the document unchanged.
C1_MismatchFailsEveryOperation ==
  [][(file.keys # {} /\ Mismatch(file) /\ StoreCall)
       => (ret'.outcome = "mismatch" /\ file' = file)]_vars

\* C2: removeAccount returns true for a stored login and removes it, and
\* returns false without writing for a login that is not stored (so a second
\* call returns false) and for the reserved key, which stays in place.
C2_RemoveAccountIdempotent ==
  [][\A login \in Keys :
       (~Mismatch(LowRead(mem, file)) /\ removeUserActivityRecord(login)) =>
         LET doc == LowRead(mem, file)
             stored == login \in doc.keys \ {StateKey}
         IN  /\ IF stored
                THEN ret'.outcome = "true" /\ login \notin file'.keys
                ELSE /\ ret'.outcome = "false"
                     /\ ~ret'.wrote
                     /\ file' = file
             /\ StateKey \in mem'.keys
             /\ (ret.op = "removeUserActivityRecord" /\ ret.arg = login
                   /\ ret.outcome = "true")
                  => (ret'.outcome = "false" /\ ~ret'.wrote)]_vars

(***************************************************************************)
(* Properties of the fetch cycle.                                          *)
(***************************************************************************)
EntryLogins == {entries[i].login : i \in 1..Len(entries)}

LastRecordFor(login) ==
  entries[CHOOSE i \in 1..Len(entries) :
            /\ entries[i].login = login
            /\ \A j \in (i + 1)..Len(entries) : entries[j].login # login]

\* The record of entry i is in the document and was not there at the start.
Committed(i) ==
  LET login == entries[i].login
      stored == JsonEntry(UserRecord(entries[i]))
  IN  /\ login \in file.keys
      /\ file.val[login] = stored
      /\ ~(login \in fileAtStart.keys /\ fileAtStart.val[login] = stored)

LastRunOf(doc) == IF doc.keys = {} THEN 0 ELSE doc.val[StateKey].lastRun.v

RemovedLogins == {removeCalls[i] : i \in 1..Len(removeCalls)}

\* C3: when the fetch function rejects, fetchActivity rejects with that
\* error, the document is not written (no record added, changed or removed)
\* and lastRun is not advanced.
C3_FetchRejectionLeavesStoreUntouched ==
  (pc = "failed" /\ err = "fetch") =>
    /\ file = fileAtStart
    /\ mem \in {DefaultData(Self), file}
    /\ entries = <<>>
    /\ writeQueue = <<>>
    /\ writeOk = <<>>
    /\ removeCalls = <<>>
    /\ lastRunUpdates = 0

C3_Witness ==
  /\ pc = "failed"
  /\ err = "fetch"
  /\ now > fetchStartTime
  /\ Logins \subseteq fileAtStart.keys

\* C4 as stated: when a logging call rejects, fetchActivity rejects, lastRun
\* is not advanced, reconciliation does not run and none of the batch's
\* records has been committed; otherwise every record is stored and lastRun
\* advances.
C4_LoggingFailureCommitsNothing ==
  /\ (pc = "failed" /\ err = "log") =>
       /\ lastRunUpdates = 0
       /\ LastRunOf(file) <= LastRunOf(fileAtStart)
       /\ allUsers = {}
       /\ removeCalls = <<>>
       /\ \A i \in 1..Len(entries) : ~Committed(i)
  /\ (pc = "done" /\ ~customLog) =>
       /\ \A login \in EntryLogins :
            /\ login \in file.keys
            /\ file.val[login] = JsonEntry(UserRecord(LastRecordFor(login)))
       /\ file.val[StateKey].lastRun = Iso(fetchStartTime)

\* C4, amended: when a logging call rejects, fetchActivity rejects, lastRun
\* is not advanced and reconciliation does not run, but records of the batch
\* may already be in the document; when the cycle succeeds with the default
\* store logging, every login of the batch is stored with its last record of
\* the batch and lastRun is the start time.
C4_LoggingFailureAbortsWithoutRollback ==
  /\ (pc = "failed" /\ err = "log") =>
       /\ lastRunUpdates = 0
       /\ LastRunOf(file) <= LastRunOf(fileAtStart)
       /\ allUsers = {}
       /\ usersToRemove = <<>>
       /\ removeCalls = <<>>
  /\ (pc = "done" /\ ~customLog) =>
       /\ \A login \in EntryLogins :
            /\ login \in file.keys
            /\ file.val[login] = JsonEntry(UserRecord(LastRecordFor(login)))
       /\ file.val[StateKey].lastRun = Iso(fetchStartTime)

C4_Witness ==
  /\ pc = "failed"
  /\ err = "log"
  /\ \E i \in 1..Len(entries) : Committed(i)

\* C5: after a successful fetchActivity the stored lastRun is the time
\* captured when the call started, with or without a since-override.
C5_LastRunIsFetchStartTime ==
  pc = "done" =>
    /\ file.val[StateKey].lastRun = Iso(fetchStartTime)
    /\ mem.val[StateKey].lastRun = Iso(fetchStartTime)

C5_Witness ==
  /\ pc = "done"
  /\ now > fetchStartTime
  /\ fileAtStart.keys # {}
  /\ lastRunArg = DateV(0)

\* C6: within one cycle lastRun is updated at most once, only after every
\* logging call has completed and the reconciliation removals are over, and
\* exactly once when the cycle succeeds.
C6_LastRunUpdatedOnceAfterLogging ==
  /\ lastRunUpdates \in {0, 1}
  /\ lastRunUpdates = 1 =>
       /\ Len(logStatus) = Len(entries)
       /\ \A i \in 1..Len(entries) : logStatus[i] = "done"
       /\ writeQueue = <<>>
       /\ usersToRemove = <<>>
  /\ pc = "done" => lastRunUpdates = 1
  /\ pc \in {"started", "fetching", "logging", "reconcile"} =>
       lastRunUpdates = 0

C6_Witness ==
  /\ pc = "done"
  /\ customLog
  /\ Len(entries) = MaxBatch
  /\ activityResultType = "complete"
  /\ removeCalls # <<>>

\* C7: in complete mode with dry-run false a successful cycle invokes
\* removal exactly once for every stored login absent from the batch and for
\* no login of the batch.
C7_RemovalExactlyForAbsentLogins ==
  /\ (pc = "reconcile" /\ removeCalls = <<>>) =>
       allUsers = file.keys \ {StateKey}
  /\ (pc = "done" /\ activityResultType = "complete" /\ ~dryRun) =>
       /\ RemovedLogins = allUsers \ EntryLogins
       /\ Len(removeCalls) = Cardinality(allUsers \ EntryLogins)

C7_Witness ==
  /\ pc = "done"
  /\ activityResultType = "complete"
  /\ ~dryRun
  /\ allUsers = Logins
  /\ EntryLogins = {"a"}
  /\ removeCalls = <<"b", "constructor">>

\* C8: in partial mode, and in complete mode with dry-run true, no removal
\* is invoked and the listed accounts stay in the store.
C8_NoRemovalUnlessCompleteAndLive ==
  (activityResultType = "partial" \/ dryRun) =>
    /\ removeCalls = <<>>
    /\ pc \in {"reconcile", "updateLastRun", "done"} =>
         allUsers \subseteq file.keys

C8_Witness ==
  /\ pc = "done"
  /\ activityResultType = "complete"
  /\ dryRun
  /\ allUsers \ EntryLogins # {}

\* C9 as stated: without a removeUser hook the complete-snapshot
\* reconciliation skips removal and leaves the absent accounts in the store.
C9_NoHookSkipsRemoval ==
  (pc = "done" /\ activityResultType = "complete" /\ ~removeUserSet) =>
    /\ removeCalls = <<>>
    /\ allUsers \subseteq file.keys

\* C9, amended: the reconciliation does not consult the removeUser hook;
\* without one, and with dry-run false, the stored accounts absent from the
\* batch are deleted from the store all the same.
C9_ReconciliationIgnoresHook ==
  (pc = "done" /\ activityResultType = "complete" /\ ~dryRun
     /\ ~removeUserSet) =>
    /\ RemovedLogins = allUsers \ EntryLogins
    /\ (allUsers \ EntryLogins) \cap file.keys = {}

C9_Witness ==
  /\ pc = "done"
  /\ activityResultType = "complete"
  /\ ~dryRun
  /\ ~removeUserSet
  /\ removeCalls # <<>>
  /\ RemovedLogins \cap file.keys = {}

(***************************************************************************)
(* Properties of the default dormancy predicate.                           *)
(***************************************************************************)
Evaluated == clsResult # "none" /\ clsLastActivity.k = "date"

\* C10: for every duration threshold D and check instant N the account is
\* dormant iff N - lastActivity is strictly greater than D (lastActivity
\* = N - D - 1 is dormant, N - D and N - D + 1 are active).
C10_StrictBoundaryEveryDuration ==
  (Evaluated /\ clsDuration.k = "num") =>
    clsResult = IF clsCheckTime.v - clsLastActivity.v > clsDuration.v
                THEN "dormant" ELSE "active"

\* C10 away from the zero threshold, where the code does classify: dormant
\* iff N - lastActivity is strictly greater than D; at D = 0 the predicate
\* throws 'Invalid duration string'.
C10_StrictBoundaryNonZeroDuration ==
  (Evaluated /\ clsDuration.k = "num") =>
    IF clsDuration.v = 0
    THEN clsResult = "throw"
    ELSE clsResult = IF clsCheckTime.v - clsLastActivity.v > clsDuration.v
                     THEN "dormant" ELSE "active"

\* C11: under the default dormancy predicate an account whose lastActivity
\* is null is classified dormant, for every duration threshold (zero and
\* unparsable ones included) and every check instant.
C11_NullActivityIsDormant ==
  (clsResult # "none" /\ clsLastActivity.k = "null") => clsResult = "dormant"

C11_Witness ==
  /\ clsResult = "dormant"
  /\ clsLastActivity = Null
  /\ clsDuration = Num(0)
  /\ clsCheckTime = DateV(MaxCheckTime)

(***************************************************************************)
(* Properties of the classification pass.                                  *)
(***************************************************************************)
ListedLogins(list) == {list[i] : i \in 1..Len(list)}

StoredLogins == file.keys \ {StateKey}

\* C12: an account for which the whitelist predicate returns true is pushed
\* to the active list, whatever its lastActivity, and the dormancy predicate
\* is not called for it.
C12_WhitelistedIsActiveUnevaluated ==
  [][\A login \in Logins :
       WhitelistSettle(login, "true") =>
         /\ acctStatus'[login] = "active"
         /\ resActive' = Append(resActive, login)
         /\ resDormant' = resDormant
         /\ dormancyCalls' = dormancyCalls
         /\ login \notin dormancyCalls]_vars

C12_Witness ==
  /\ passPc = "returned"
  /\ ~isDormantSet
  /\ \E login \in ListedLogins(resActive) :
       /\ mem.val[login].lastActivity = Null
       /\ login \notin dormancyCalls
  /\ resDormant # <<>>

\* C13: a successful pass partitions the stored accounts: every stored login
\* is in exactly one of the two lists, once, and no other login is listed.
C13_PassPartitionsStoredAccounts ==
  passPc = "returned" =>
    /\ ListedLogins(resActive) \cup ListedLogins(resDormant) = StoredLogins
    /\ ListedLogins(resActive) \cap ListedLogins(resDormant) = {}
    /\ Len(resActive) = Cardinality(ListedLogins(resActive))
    /\ Len(resDormant) = Cardinality(ListedLogins(resDormant))

C13_Witness ==
  /\ passPc = "returned"
  /\ StoredLogins = Logins
  /\ Len(resActive) = 2
  /\ Len(resDormant) = 1

\* C14: one check instant is captured before any per-account predicate runs
\* and every isDormant call of the pass receives it, however the callbacks
\* interleave and however long the whitelist checks take.
C14_SingleCheckInstant ==
  /\ dormancyInstants \subseteq {capturedCheckTime}
  /\ passPc = "idle" => dormancyCalls = {}

C14_Witness ==
  /\ passPc = "returned"
  /\ isWhitelistedSet
  /\ now > capturedCheckTime
  /\ Cardinality(dormancyCalls) >= 2
  /\ dormancyInstants = {capturedCheckTime}

\* C15: the two lists a pass returns are sorted by login, ascending, so the
\* output is a function of the two sets, whatever the order of the pushes.
C15_ListsSortedByLogin ==
  passPc = "returned" =>
    /\ resActive = SortedKeys(ListedLogins(resActive))
    /\ resDormant = SortedKeys(ListedLogins(resDormant))
    /\ \A i, j \in 1..Len(resActive) :
         i < j => localeCompare(resActive[i], resActive[j]) < 0
    /\ \A i, j \in 1..Len(resDormant) :
         i < j => localeCompare(resDormant[i], resDormant[j]) < 0

C15_Witness ==
  /\ passPc = "returned"
  /\ isWhitelistedSet
  /\ isDormantSet
  /\ resActive = <<"a", "constructor">>
  /\ resDormant = <<"b">>

\* C16: when the whitelist or the dormancy predicate rejects for an account
\* the operation rejects with that error (the first one) and never returns
\* a split or a summary.
C16_PredicateRejectionAbortsPass ==
  /\ [](/\ ((\E l \in Logins : acctStatus[l] = "rejected") =>
               (/\ passPc = "rejected"
                /\ passErr.by \in {"whitelist", "dormancy"}
                /\ acctStatus[passErr.login] = "rejected"))
          /\ (passPc = "rejected" => ~summary.done))
  /\ [][passPc = "rejected" =>
          (passPc' = "rejected" /\ passErr' = passErr)]_vars

C16_Witness ==
  /\ passPc = "rejected"
  /\ ~isDormantSet
  /\ passErr.by = "dormancy"
  /\ resActive # <<>>
  /\ \E l \in Logins : l # passErr.login /\ acctStatus[l] = "rejected"

\* C17: summarize() on an empty account set returns zero counts and zero
\* percentages, never NaN.
C17_EmptySummaryIsZero ==
  (summary.done /\ StoredLogins = {}) =>
    /\ summary.totalAccounts = 0
    /\ summary.activeAccounts = 0
    /\ summary.dormantAccounts = 0
    /\ summary.activeAccountPercentage = Num(0)
    /\ summary.dormantAccountPercentage = Num(0)

C17_Witness ==
  /\ summary.done
  /\ passPc = "returned"
  /\ file.keys = {StateKey}
  /\ summary.totalAccounts = 0

\* C18: for totalAccounts > 0 the total is the sum of the two counts, each
\* percentage is count / total * 100 rounded to two decimals, and the two
\* percentages add up to 100 within 0.01.
C18_PercentagesRoundedAndSumTo100 ==
  (summary.done /\ summary.totalAccounts > 0) =>
    LET t == summary.totalAccounts
        pa == summary.activeAccountPercentage
        pd == summary.dormantAccountPercentage
        Off(p, n) == IF p * t >= n * 10000 THEN p * t - n * 10000
                     ELSE n * 10000 - p * t
    IN  /\ t = summary.activeAccounts + summary.dormantAccounts
        /\ summary.activeAccounts = sumActive
        /\ summary.dormantAccounts = sumDormant
        /\ pa.k = "num" /\ pd.k = "num"
        /\ 2 * Off(pa.v, sumActive) <= t
        /\ 2 * Off(pd.v, sumDormant) <= t
        /\ pa.v + pd.v \in 9999..10001

C18_Witness ==
  /\ summary.done
  /\ sumActive = 1
  /\ sumDormant = 31
  /\ summary.activeAccountPercentage = Num(313)
  /\ summary.dormantAccountPercentage = Num(9688)

(***************************************************************************)
(* Properties of the key order.                                            *)
(***************************************************************************)
\* C19: after every mutating store operation the written document has
\* _state as its first key and the other keys in ascending sorted order.
C19_StateFirstOthersSorted ==
  orderOp.wrote =>
    /\ writtenKeys[1] = StateKey
    /\ \A i, j \in 2..Len(writtenKeys) :
         i < j => localeCompare(writtenKeys[i], writtenKeys[j]) < 0

(***************************************************************************)
(* Properties of the notifier.                                             *)
(***************************************************************************)
OpenTickets(login) ==
  {n \in 1..Len(issues) : issues[n].open /\ issues[n].title = login}

\* C20: each login has at most one open notification ticket carrying the
\* base labels (dry runs change no ticket, so every state of the tracker is
\* the outcome of the non-dry-run invocations before it).
C20_AtMostOneOpenTicket ==
  \A login \in NotifierLogins : Cardinality(OpenTickets(login)) <= 1

\* A dry run leaves the tracker as it is.
DryRunChangesNoTicket == [][nDryRun' => issues' = issues]_vars

(***************************************************************************)
(* Properties of one invocation.                                           *)
(***************************************************************************)
\* The account of the current iteration of the first loop.
CurrentUser == nUsers[nIdx]

\* The iteration recorded no failure.
NoFailureRecorded == nResult'.errors = nResult.errors

Listed(list) == {list[i].user : i \in 1..Len(list)}

\* C21: an iteration of a non-dry-run invocation for a dormant account with
\* no open ticket, none of whose requests fails, appends exactly one ticket
\* titled with the login and labelled pending-removal, lists the account
\* with that ticket under notified, leaves every other ticket as it was and
\* does not invoke the removal hook.
C21_NoTicketIsNotifiedOnce ==
  [][(/\ nPc = "users"
      /\ ~nDryRun
      /\ OpenTickets(CurrentUser) = {}
      /\ nIdx' = nIdx + 1
      /\ NoFailureRecorded)
     => /\ Len(issues') = Len(issues) + 1
        /\ SubSeq(issues', 1, Len(issues)) = issues
        /\ issues'[Len(issues')].title = CurrentUser
        /\ issues'[Len(issues')].open
        /\ issues'[Len(issues')].labels = {PENDING}
        /\ nResult'.notified =
             Append(nResult.notified,
                    [user |-> CurrentUser, number |-> Len(issues')])
        /\ \A list \in {"removed", "reactivated", "excluded",
                         "inGracePeriod"} : nResult'[list] = nResult[list]
        /\ hookCalls' = hookCalls]_vars

C21_Witness ==
  /\ ~nDryRun
  /\ nPc = "returned"
  /\ Len(issues) = 3
  /\ nResult.notified = <<[user |-> "a", number |-> 3]>>
  /\ issues[3].title = "a" /\ issues[3].open /\ issues[3].labels = {PENDING}
  /\ issues[1].title = "a" /\ ~issues[1].open
  /\ hookCalls = <<>>

\* How often the removal hook was invoked for login in this invocation.
HookInvocations(login) ==
  Cardinality({k \in 1..Len(hookCalls) : hookCalls[k] = login})

\* C22: in a non-dry-run invocation an account is listed under removed only
\* when it had an open, non-excluded ticket older than the grace period, and
\* when the invocation returns the hook was invoked exactly once for it and
\* its ticket is closed and labelled user-removed.
C22_RemovedHadHookAndClosedTicket ==
  /\ []((nPc = "returned" /\ ~nDryRun) =>
          \A i \in 1..Len(nResult.removed) :
            /\ HookInvocations(nResult.removed[i].user) = 1
            /\ ~issues[nResult.removed[i].number].open
            /\ REMOVED \in issues[nResult.removed[i].number].labels)
  /\ [][(nPc = "users" /\ ~nDryRun /\ nResult'.removed # nResult.removed)
        => \E n \in OpenTickets(CurrentUser) :
             /\ EXCLUDED \notin issues[n].labels
             /\ now - issues[n].createdAt > gracePeriodMillis.v]_vars

\* The account of the current iteration has exactly one open ticket, n.
OnlyOpenTicket(n) == OpenTickets(CurrentUser) = {n}

\* C23: an iteration for a dormant account whose open, non-excluded ticket
\* is not older than the grace period lists the account with that ticket
\* under inGracePeriod and changes no ticket and invokes no hook.
C23_InGracePeriodNoSideEffect ==
  [][(/\ nPc = "users"
      /\ nIdx' = nIdx + 1
      /\ NoFailureRecorded
      /\ \E n \in 1..Len(issues) :
           /\ OnlyOpenTicket(n)
           /\ EXCLUDED \notin issues[n].labels
           /\ now - issues[n].createdAt <= gracePeriodMillis.v)
     => /\ issues' = issues
        /\ hookCalls' = hookCalls
        /\ \E n \in 1..Len(issues) :
             /\ OnlyOpenTicket(n)
             /\ nResult'.inGracePeriod =
                  Append(nResult.inGracePeriod,
                         [user |-> CurrentUser, number |-> n])
        /\ \A list \in {"notified", "removed", "reactivated", "excluded"} :
             nResult'[list] = nResult[list]]_vars

\* The login of the current iteration of the second loop.
CurrentReactivated == nReactivated[nRIdx]

\* C24: every login with an open ticket that is absent from the dormant set
\* is taken as reactivated when the invocation starts, and its iteration in
\* a non-dry-run invocation, when no request fails, closes its open tickets
\* with became-active and without pending-removal, lists it under
\* reactivated, creates no ticket and invokes no hook.
C24_AbsentLoginIsReactivated ==
  /\ [][(nPc = "idle" /\ nPc' \in {"users", "reactivated", "returned"})
        => \A l \in NotifierLogins :
             (OpenTickets(l) # {} /\ l \notin SeqRange(nUsers'))
               => l \in SeqRange(nReactivated')]_vars
  /\ [][(/\ nPc = "reactivated"
         /\ ~nDryRun
         /\ nRIdx' = nRIdx + 1
         /\ NoFailureRecorded)
        => /\ \A n \in OpenTickets(CurrentReactivated) :
                /\ ~issues'[n].open
                /\ ACTIVE \in issues'[n].labels
                /\ PENDING \notin issues'[n].labels
                /\ nResult'.reactivated =
                     Append(nResult.reactivated,
                            [user |-> CurrentReactivated, number |-> n])
           /\ Len(issues') = Len(issues)
           /\ hookCalls' = hookCalls]_vars

\* The open tickets carrying the admin-exclusion label.
ExcludedTickets ==
  {n \in 1..Len(issues) : issues[n].open /\ EXCLUDED \in issues[n].labels}

\* C25: no iteration of processDormantUsers changes an open ticket carrying
\* admin-exclusion or invokes the hook for its account, and the iteration of
\* an account with such a ticket, in either loop, lists it under excluded.
C25_ExcludedTicketUntouched ==
  /\ [][(nPc \in {"users", "reactivated"})
        => /\ \A n \in ExcludedTickets : issues'[n] = issues[n]
           /\ hookCalls' # hookCalls =>
                \A n \in ExcludedTickets : issues[n].title # CurrentUser]_vars
  /\ [][(/\ nPc \in {"users", "reactivated"}
         /\ NoFailureRecorded
         /\ \E n \in ExcludedTickets :
              issues[n].title = IF nPc = "users" THEN CurrentUser
                                ELSE CurrentReactivated)
        => \E n \in ExcludedTickets :
             nResult'.excluded =
               Append(nResult.excluded,
                      [user |-> issues[n].title, number |-> n])]_vars

ResultLists ==
  {"notified", "removed", "reactivated", "excluded", "inGracePeriod",
   "errors"}

\* The lists of res that name login.
ListsNaming(res, login) ==
  {list \in ResultLists : login \in Listed(res[list])}

\* How the accounts after the current one are reported when the current
\* iteration leaves the tracker as iss.
ReportedAfter(iss, login) ==
  ListsNaming(UsersLoop(iss, EmptyResult, nReactivated, nDryRun, now, nUsers,
                        nIdx + 1).res, login)

\* C26: an iteration that fails records the failure in errors under its
\* login, the invocation goes on, and every later account of the dormant
\* set is reported as it is when the iteration does not fail.
C26_FailureIsRecordedAndIsolated ==
  /\ [][(nPc \in {"users", "reactivated"})
        => /\ nPc' # "rejected"
           /\ nResult'.errors # nResult.errors =>
                nResult'.errors =
                  Append(nResult.errors,
                         [user |-> IF nPc = "users" THEN CurrentUser
                                   ELSE CurrentReactivated,
                          number |-> 0])]_vars
  /\ [](nPc = "users" =>
          \A lookupOk \in BOOLEAN, hook \in {"true", "throw"},
             failAt \in 0..Len(RemovalCalls), createOk \in BOOLEAN :
            LET failing == ProcessUser(CurrentUser, lookupOk, hook, failAt,
                                       createOk)
                passing == ProcessUser(CurrentUser, TRUE, "true", 0, TRUE)
            IN  failing.res.errors # nResult.errors =>
                  \A j \in (nIdx + 1)..Len(nUsers) :
                    ReportedAfter(failing.iss, nUsers[j])
                      = ReportedAfter(passing.iss, nUsers[j]))

\* C27: a dry-run invocation changes no ticket and invokes no hook, and
\* when it returns without a failed lookup it names every login in the
\* lists in which the non-dry-run invocation on the same tracker names it.
C27_DryRunMutatesNothingReportsSame ==
  /\ [][(nDryRun /\ nPc \in {"users", "reactivated"})
        => (issues' = issues /\ hookCalls' = hookCalls)]_vars
  /\ []((nPc = "returned" /\ nDryRun /\ nResult.errors = <<>>) =>
          \A l \in NotifierLogins :
            ListsNaming(nResult, l)
              = ListsNaming(processDormantUsers(issues, nUsers, FALSE,
                                                now).res, l))

\* The closed tickets titled login.
ClosedTickets(login) ==
  {n \in 1..Len(issues) : ~issues[n].open /\ issues[n].title = login}

\* C28: no iteration of processDormantUsers changes a closed ticket, and
\* the iteration of a non-dry-run invocation for a dormant account that has
\* closed tickets and no open one, when no request fails, appends a new open
\* ticket for it.
C28_ClosedTicketStaysNewOneCreated ==
  /\ [][(nPc \in {"users", "reactivated"})
        => \A n \in 1..Len(issues) :
             ~issues[n].open => issues'[n] = issues[n]]_vars
  /\ [][(/\ nPc = "users"
         /\ ~nDryRun
         /\ ClosedTickets(CurrentUser) # {}
         /\ OpenTickets(CurrentUser) = {}
         /\ nIdx' = nIdx + 1
         /\ NoFailureRecorded)
        => /\ issues' = Append(issues, issues'[Len(issues')])
           /\ issues'[Len(issues')].title = CurrentUser
           /\ issues'[Len(issues')].open
           /\ issues'[Len(issues')].createdAt = now]_vars

C28_Witness ==
  /\ ~nDryRun
  /\ nPc = "returned"
  /\ \E n \in ClosedTickets("b") :
       /\ REMOVED \in issues[n].labels
       /\ \E m \in OpenTickets("b") :
            /\ m > n
            /\ issues[m].createdAt = now
            /\ [user |-> "b", number |-> m] \in SeqRange(nResult.notified)

Elapsed(n) == now - issues[n].createdAt

\* C31: for a grace period that parses to a duration, hasGracePeriodExpired
\* returns true when the time elapsed since the creation of the ticket is
\* strictly greater than the grace period and false otherwise; an age equal
\* to the grace period is still within it.
C31_ExpiredIffStrictlyOlder ==
  gracePeriodMillis.k = "num" =>
    \A n \in 1..Len(issues) :
      hasGracePeriodExpired(issues[n], now) =
        IF Elapsed(n) > gracePeriodMillis.v THEN "over" ELSE "within"

\* The same for the grace periods other than zero.
GraceStrictForNonZero ==
  (gracePeriodMillis.k = "num" /\ gracePeriodMillis.v # 0) =>
    \A n \in 1..Len(issues) :
      hasGracePeriodExpired(issues[n], now) =
        IF Elapsed(n) > gracePeriodMillis.v THEN "over" ELSE "within"

(***************************************************************************)
(* Properties of the removal hook of the action.                           *)
(***************************************************************************)
\* The logins a document holds records for.
LoginsOf(doc) == doc.keys \ {StateKey}

\* The removal call of the last removeCopilotLicense returned true.
RemovalReturnedTrue ==
  ret'.value.call # "none" /\ ret'.value.seat.callResult = "true"

\* C32: removeCopilotLicense removes the record of the account from the
\* store when the revocation or team removal it made returned true and
\* leaves the document as it was otherwise; it makes no removal call when
\* removal is disabled or the seat is team-provisioned and team removal is
\* not allowed, and returns true without a removal call when the seat has a
\* pending cancellation date.
C32_RecordRemovedIffRemovalSucceeded ==
  [][ret'.op = "removeCopilotLicense" =>
       LET seat == ret'.value.seat
       IN  /\ RemovalReturnedTrue
                => /\ ret'.arg \notin LoginsOf(file')
                   /\ LoginsOf(file') = LoginsOf(file) \ {ret'.arg}
           /\ ~RemovalReturnedTrue => file' = file
           /\ (seat.seatOk /\ ~seat.pending
                 /\ (~seat.removeDormantAccounts
                       \/ (seat.team /\ ~seat.allowTeamRemoval)))
                => /\ ret'.value.call = "none"
                   /\ ret'.outcome = "false"
           /\ (seat.seatOk /\ seat.pending)
                => /\ ret'.value.call = "none"
                   /\ ret'.outcome = "true"]_vars

\* A revocation returned true and the record of the account is gone.
C32_Witness ==
  /\ ret.op = "removeCopilotLicense"
  /\ ret.value.call = "revoke"
  /\ ret.value.seat.callResult = "true"
  /\ ret.outcome = "true"
  /\ ret.wrote
  /\ ret.arg = "a"
  /\ "a" \notin LoginsOf(file)
  /\ "b" \in LoginsOf(file)

(***************************************************************************)
(* Properties of the metadata record.                                      *)
(***************************************************************************)
\* The metadata record of a document.
StateOf(doc) == doc.val[StateKey]

\* C33: no store operation changes the check type stamped in the written
\* document or puts an account record in the place of the metadata record,
\* and updateUserActivity leaves the check type and lastRun of the metadata
\* record as they were, whatever the login.
C33_MetadataRecordKept ==
  [][/\ StateKey \in file.keys
          => /\ StateOf(file').checkType = StateOf(file).checkType
             /\ StateOf(file').lastActivity = Undef
     /\ ret'.op = "updateUserActivity"
          => /\ StateOf(mem').checkType = StateOf(mem).checkType
             /\ StateOf(mem').lastRun = StateOf(mem).lastRun]_vars

\* The same for the operations on a document of this check with a login
\* other than the reserved key.
MetadataKeptForAccountLogins ==
  [][(/\ StateKey \in file.keys
      /\ StateOf(file).checkType = Self
      /\ ~(ret'.op = "updateUserActivity" /\ ret'.arg = StateKey))
     => /\ StateOf(file').checkType = StateOf(file).checkType
        /\ StateOf(file').lastActivity = Undef]_vars

(***************************************************************************)
(* Properties of the snapshot modes.                                       *)
(***************************************************************************)
\* C34: after a successful fetchActivity in partial mode every login the
\* document held when the call started is still stored, and the logins that
\* are not in the batch have the records they had.
C34_PartialLosesNoAccount ==
  (pc = "done" /\ activityResultType = "partial") =>
    /\ LoginsOf(fileAtStart) \subseteq LoginsOf(file)
    /\ \A login \in LoginsOf(fileAtStart) \ EntryLogins :
         file.val[login] = fileAtStart.val[login]

\* C35: after a successful fetchActivity in complete mode with dry-run
\* false and the default store logging, the logins of the store are exactly
\* the logins of the fetched batch.
C35_CompleteStoreEqualsBatch ==
  (pc = "done" /\ activityResultType = "complete" /\ ~dryRun /\ ~customLog)
    => LoginsOf(file) = EntryLogins

\* A complete cycle on a store of one login whose batch names another.
C35_Witness ==
  /\ pc = "done"
  /\ activityResultType = "complete"
  /\ ~dryRun
  /\ ~customLog
  /\ LoginsOf(fileAtStart) = {"b"}
  /\ EntryLogins = {"a"}
  /\ LoginsOf(file) = {"a"}

(***************************************************************************)
(* Properties of the overlapping writes of one batch.                      *)
(***************************************************************************)
\* C36: once every default logging call of a batch has resolved, the
\* document is the in-memory data and every login of the batch is stored
\* with the record that comes last for it in the batch; and the logging
\* calls of any batch drop or change no record of a login outside the batch.
C36_LastRecordWinsNoneLost ==
  /\ (pc = "logging" /\ ~customLog /\ entries # <<>>
        /\ PromiseAllResolved(logStatus))
       => /\ file = Stringify(mem)
          /\ \A login \in EntryLogins :
               /\ login \in file.keys
               /\ file.val[login] =
                    JsonEntry(UserRecord(LastRecordFor(login)))
  /\ (pc = "fetching" /\ ~customLog)
       => \A batch \in Batches :
            LET logged == LoggedData(mem, batch, Len(batch), now)
            IN  \A login \in LoginsOf(mem) :
                  /\ login \in LoginsOf(logged)
                  /\ login \notin {batch[i].login : i \in 1..Len(batch)}
                       => logged.val[login] = mem.val[login]

\* Two records for a, the second one stored, and b still in the document.
C36_Witness ==
  /\ pc = "logging"
  /\ ~customLog
  /\ PromiseAllResolved(logStatus)
  /\ Len(entries) = 2
  /\ entries[1].login = "a"
  /\ entries[2].login = "a"
  /\ entries[1].lastActivity = DateV(1)
  /\ entries[2].lastActivity = Null
  /\ Len(writeOk) = 2
  /\ file.val["a"] = JsonEntry(UserRecord(entries[2]))
  /\ "b" \in LoginsOf(file)

(***************************************************************************)
(* Properties of the returned result.                                      *)
(***************************************************************************)
\* The number of entries of the lists in names that name login.
Occurrences(res, names, login) ==
  Cardinality({e \in UNION {{<<list, i>> : i \in 1..Len(res[list])} :
                              list \in names} :
                 res[e[1]][e[2]].user = login})

\* C37: when processDormantUsers returns, every login of the dormant set
\* has exactly one entry in the lists notified, removed, excluded,
\* inGracePeriod and errors together, and no login under reactivated is in
\* the dormant set.
C37_EachDormantLoginListedOnce ==
  nPc = "returned" =>
    /\ \A login \in SeqRange(nUsers) :
         Occurrences(nResult, ResultLists \ {"reactivated"}, login) = 1
    /\ Listed(nResult.reactivated) \cap SeqRange(nUsers) = {}

\* One dormant account listed as removed while the ticket of an account
\* outside the dormant set was closed as reactivated.
C37_Witness ==
  /\ nPc = "returned"
  /\ nUsers = <<"b">>
  /\ Listed(nResult.removed) = {"b"}
  /\ Listed(nResult.reactivated) = {"a"}
  /\ nResult.errors = <<>>

(***************************************************************************)
(* Properties of the flow of the action.                                   *)
(***************************************************************************)
\* C38: when processDormantUsers returns in the flow of the action, every
\* login under reactivated is an account of the store that the engine
\* classifies as active.
C38_ReactivatedIsStoredAndActive ==
  nPc = "returned" =>
    \A login \in Listed(nResult.reactivated) :
      /\ login \in LoginsOf(file)
      /\ login \in SeqRange(getAccountStatuses(mem, file, now).active)

\* The same for the accounts the store holds, against the active list of
\* the flow, when the passes capture one instant.
StoredReactivatedIsActive ==
  (nPc = "returned" /\ now = 0) =>
    \A login \in Listed(nResult.reactivated) \cap LoginsOf(file) :
      login \in SeqRange(resActive)

\* C39: when the three calls have returned with no store change in
\* between, every stored account is in exactly one of the dormant list and
\* the active list, and the dormant and active counts of the summary are
\* the lengths of those lists.
C39_ListsAndSummaryConsistent ==
  passPc = "summarized" =>
    /\ \A login \in LoginsOf(file) :
         (login \in SeqRange(resDormant)) # (login \in SeqRange(resActive))
    /\ summary.dormantAccounts = Len(resDormant)
    /\ summary.activeAccounts = Len(resActive)

\* The same when the three passes capture the same instant.
ConsistentAtOneInstant ==
  (passPc = "summarized" /\ nPc = "idle" /\ now = 0) =>
    /\ \A login \in LoginsOf(file) :
         (login \in SeqRange(resDormant)) # (login \in SeqRange(resActive))
    /\ summary.dormantAccounts = Len(resDormant)
    /\ summary.activeAccounts = Len(resActive)

(***************************************************************************)
(* Properties of the removal hook over the invocations.                    *)
(***************************************************************************)
\* The open, non-excluded tickets of the account of the current iteration
\* that carry pending-removal and are older than the grace period.
ExpiredTickets ==
  {k \in 1..Len(issues) :
     /\ issues[k].title = nUsers[nIdx]
     /\ issues[k].open
     /\ hasLabel(issues[k], PENDING)
     /\ ~hasLabel(issues[k], EXCLUDED)
     /\ hasGracePeriodExpired(issues[k], now) = "over"}

\* An iteration of the first loop of a non-dry-run invocation with a hook
\* configured.
HookIteration == nPc = "users" /\ ~nDryRun /\ removeAccountSet

\* C40: in a non-dry-run invocation, for a dormant account with an expired
\* open ticket, the hook is invoked; when it throws or returns a falsy
\* value the ticket stays as it is, open with pending-removal, and when it
\* returns true the ticket is closed; the hook is not invoked for an
\* account none of whose tickets is open.
C40_HookRetriedUntilTrueThenNever ==
  HookIteration =>
    \A hook \in {"true", "false", "throw"}, failAt \in 0..Len(RemovalCalls) :
      LET login == nUsers[nIdx]
          step == ProcessUser(login, TRUE, hook, failAt, TRUE)
      IN  /\ \A k \in ExpiredTickets :
               /\ step.hooks = Append(hookCalls, login)
               /\ hook # "true" => step.iss[k] = issues[k]
               /\ hook = "true" => ~step.iss[k].open
          /\ (\A k \in 1..Len(issues) :
                issues[k].title = login => ~issues[k].open)
               => step.hooks = hookCalls

\* The same for the ticket the lookup returns, when no request on the
\* ticket fails.
HookRetriedForTicketFound ==
  HookIteration =>
    \A hook \in {"true", "false", "throw"} :
      LET login == nUsers[nIdx]
          step == ProcessUser(login, TRUE, hook, 0, TRUE)
      IN  /\ \A k \in ExpiredTickets :
               k = getExistingNotification(issues, login) =>
                 /\ step.hooks = Append(hookCalls, login)
                 /\ hook # "true" => step.iss[k] = issues[k]
                 /\ hook = "true" => ~step.iss[k].open
          /\ (\A k \in 1..Len(issues) :
                issues[k].title = login => ~issues[k].open)
               => step.hooks = hookCalls

\* When the hook returns true for the ticket the lookup returns, the ticket
\* is closed, whichever request on the ticket fails.
HookTrueClosesTicketFound ==
  HookIteration =>
    \A failAt \in 0..Len(RemovalCalls) :
      LET login == nUsers[nIdx]
          k == getExistingNotification(issues, login)
          step == ProcessUser(login, TRUE, "true", failAt, TRUE)
      IN  k \in ExpiredTickets => ~step.iss[k].open
====
